---- MODULE Spec2Model ----
(***************************************************************************)
(* The index lifecycle of server/rag_service/faiss_handler.py: the        *)
(* process-wide embedding model and dimension, the loaded_indices cache,  *)
(* the per-tenant directories with their two files (index.faiss and       *)
(* index.pkl), and load_or_create_index / add_documents_to_index /        *)
(* save_index on top of them.                                              *)
(*                                                                         *)
(* A Python exception is the field "raised" of an operator's result.      *)
(* None is 0 for the cached dimension and FALSE for the embedding model.  *)
(***************************************************************************)
EXTENDS Integers, Sequences, FiniteSets, TLC

VARIABLES
    embedding_model,      \* faiss_handler.embedding_model: FALSE is None, TRUE a loaded model
    embedding_dimension,  \* faiss_handler._embedding_dimension: 0 is None
    loaded_indices,       \* faiss_handler.loaded_indices: raw user id -> index object
    disk,                 \* config.FAISS_INDEX_DIR: directory name -> its two files
    model_dim,            \* output length of the model config.EMBEDDING_MODEL_NAME names
    ret,                  \* what the last call did and how it ended
    last_persist,         \* the index the last successful save_index wrote, while nothing ran since
    threads               \* request threads: where each is in its call, and its local variables

vars == <<embedding_model, embedding_dimension, loaded_indices, disk, model_dim, ret, last_persist,
          threads>>

----------------------------------------------------------------------------
(* Bounds of the model *)

\* the vectors one index may hold before the model stops ingesting into it
MaxVectors == 2
\* the largest k handed to query_index
MaxK == 2
\* the longest document list handed to one add_documents_to_index call
MaxBatch == 2
\* width of a uuid4 value (128 in Python), scaled down
UuidBits == 2
\* width kept by the mask 2**63 - 1 (63 in the source), scaled down with UuidBits
IdBits == 1

\* the output dimensions the configured embedding model may have across restarts
Dims == {2, 3}

----------------------------------------------------------------------------
(* Dictionaries *)

Put(f, k, v) == [x \in (DOMAIN f) \cup {k} |-> IF x = k THEN v ELSE f[x]]

Remove(f, k) == [x \in (DOMAIN f) \ {k} |-> f[x]]

EmptyDict == [x \in {} |-> 0]

Range(f) == {f[x] : x \in DOMAIN f}

RECURSIVE Pow2(_)
Pow2(n) == IF n = 0 THEN 1 ELSE 2 * Pow2(n - 1)

----------------------------------------------------------------------------
(* Tenants, documents, identifiers *)

\* config.DEFAULT_INDEX_USER_ID, '__DEFAULT__', as its characters
DEFAULT_INDEX_USER_ID == <<"_", "_", "D", "E", "F", "A", "U", "L", "T", "_", "_">>

\* no user: the user id of a ret that is about no tenant
NoUser == <<>>

Tenants == {<<"u", "1">>}

\* two user ids that differ in a character get_user_index_path replaces
DotUser == <<"u", ".", "1">>

UnderscoreUser == <<"u", "_", "1">>

AliasUsers == {DotUser, UnderscoreUser}

\* a LangchainDocument: page_content and metadata['documentName'], both as their
\* characters
Document(text, name) == [page_content |-> text, documentName |-> name]

DocPool == {Document(<<"A">>, <<"f", "1">>)}

\* the texts of the spec's scenario, one that begins like the first and embeds
\* otherwise, and one that embeds like the second under another key
Apples == <<"A", "p">>

Bananas == <<"B">>

ApplesLong == <<"A", "p", "x">>

Cherries == <<"C">>

\* the chunks a tenant uploads: each tenant has a file of its own
TenantDocs(user_id) ==
    {Document(<<"B">>, IF user_id = DotUser THEN <<"f", "1">>
                       ELSE IF user_id = UnderscoreUser THEN <<"f", "2">>
                       ELSE <<"f", "0">>)}

\* two chunks of two files: the name of the second file is the name of the first and
\* an underscore, the text of the first chunk an underscore and the text of the second
KeyPool == {Document(<<"_", "c">>, <<"f">>), Document(<<"c">>, <<"f", "_">>)}

\* the texts the query scenarios ask for
QueryTexts == {Apples, Bananas}

\* the chunks the query scenarios ingest, all of one source document
QueryPool == {Document(text, <<"f", "1">>) : text \in {Apples, Bananas, ApplesLong, Cherries}}

\* the chunks the request threads ingest
ThreadPool == {Document(text, <<"f", "1">>) : text \in {Apples, Bananas}}

\* the tenants of the query scenarios: a user and the shared default index
QueryUsers == Tenants \cup {DEFAULT_INDEX_USER_ID}

\* the stub embedding of the spec's scenario: every text a unit vector along one axis.
\* The axis goes by the first character and the direction by whether the text goes on
\* after the characters of the deduplication key, so texts that begin alike need not
\* embed alike
TextAxis(text) == IF text # <<>> /\ text[1] = "A" THEN 1 ELSE 2

TextSign(text) == IF Len(text) <= 2 THEN 1 ELSE -1

Embed(text, d) == [i \in 1..d |-> IF i = TextAxis(text) THEN TextSign(text) ELSE 0]

UUIDs == 0..(Pow2(UuidBits) - 1)

\* uuid.UUID(id_).int & (2**63 - 1)
FaissId(uuid) == uuid % Pow2(IdBits)

----------------------------------------------------------------------------
(* Index objects and files *)

\* a langchain FAISS object: index.d, the (vector, id) pairs of the IndexIDMap in
\* insertion order, the docstore and index_to_docstore_id
NewIndex(d) ==
    [d |-> d, ids |-> <<>>, vecs |-> <<>>, docstore |-> EmptyDict,
     index_to_docstore_id |-> EmptyDict]

NoIndex == NewIndex(0)

ntotal(index) == Len(index.ids)

AbsentFaiss == [st |-> "absent", d |-> 0, ids |-> <<>>, vecs |-> <<>>]

AbsentPkl == [st |-> "absent", docstore |-> EmptyDict, index_to_docstore_id |-> EmptyDict]

CorruptFaiss == [AbsentFaiss EXCEPT !.st = "corrupt"]

CorruptPkl == [AbsentPkl EXCEPT !.st = "corrupt"]

EmptyDir == [faiss |-> AbsentFaiss, pkl |-> AbsentPkl]

\* faiss.write_index(self.index, index.faiss)
WrittenFaiss(index) == [st |-> "ok", d |-> index.d, ids |-> index.ids, vecs |-> index.vecs]

\* pickle.dump((self.docstore, self.index_to_docstore_id), index.pkl)
WrittenPkl(index) ==
    [st |-> "ok", docstore |-> index.docstore,
     index_to_docstore_id |-> index.index_to_docstore_id]

\* the file is looked for under a name save_local never writes
FileExists_wrong_name(dk, path, which) == FALSE

\* os.path.exists of one of the two files
FileExists(dk, path, which) == path \in DOMAIN dk /\ dk[path][which].st # "absent"

\* FAISS.load_local: reads both files, raises when either does not deserialize
load_local(dir) ==
    IF dir.faiss.st # "ok" \/ dir.pkl.st # "ok"
    THEN [raised |-> TRUE, index |-> NoIndex]
    ELSE [raised |-> FALSE,
          index |-> [d |-> dir.faiss.d, ids |-> dir.faiss.ids, vecs |-> dir.faiss.vecs,
                     docstore |-> dir.pkl.docstore,
                     index_to_docstore_id |-> dir.pkl.index_to_docstore_id]]

----------------------------------------------------------------------------
(* The process state the handlers work on, and what the environment does   *)
(* to one call.  env.mf: how loading the model goes ("none" is success,    *)
(* "ctor" the constructor raises, "probe" embed_query("dimension_check")   *)
(* raises or returns nothing, "test" the test embeddings come back empty). *)
(* env.mk: os.makedirs of a missing tenant directory raises.  env.sf: how  *)
(* the write in save_index goes ("none" is success, "nothing" it raises    *)
(* before anything is written, "pkl" it raises after index.faiss is        *)
(* written and before index.pkl is; it goes this way for every write of    *)
(* the call).  env.df: shutil.rmtree raises.                               *)
(* env.eo: what embed_documents gives back.  env.uuids: the uuid4 draws.   *)

State == [embedding_model |-> embedding_model, embedding_dimension |-> embedding_dimension,
          loaded_indices |-> loaded_indices, disk |-> disk, model_dim |-> model_dim]

\* the dimension measured anew on every call
get_embedding_dimension_uncached(dimension, probe) ==
    IF probe <= 0
    THEN [raised |-> TRUE, dimension |-> 0]
    ELSE [raised |-> FALSE, dimension |-> probe]

\* get_embedding_dimension: probe is the length of embed_query("dimension_check"),
\* 0 when the call raises or returns an empty vector
get_embedding_dimension(dimension, probe) ==
    IF dimension = 0
    THEN IF probe <= 0
         THEN [raised |-> TRUE, dimension |-> 0]
         ELSE [raised |-> FALSE, dimension |-> probe]
    ELSE [raised |-> FALSE, dimension |-> dimension]

\* the model loaded anew on every call
ModelLoaded_never(s) == FALSE

\* if embedding_model is None
ModelLoaded(s) == s.embedding_model

\* the except clause without its embedding_model = None: a model whose dimension
\* check or test embedding failed stays assigned
get_embedding_model_kept_on_failure(s, env) ==
    IF ModelLoaded(s)
    THEN [raised |-> FALSE, s |-> s]
    ELSE IF env.mf = "ctor"
    THEN [raised |-> TRUE, s |-> s]
    ELSE LET gd == get_embedding_dimension(s.embedding_dimension,
                                           IF env.mf = "probe" THEN 0 ELSE s.model_dim)
             s1 == [s EXCEPT !.embedding_dimension = gd.dimension,
                             !.embedding_model = TRUE]
         IN  [raised |-> gd.raised \/ env.mf = "test", s |-> s1]

get_embedding_model(s, env) ==
    IF ModelLoaded(s)
    THEN [raised |-> FALSE, s |-> s]
    ELSE IF env.mf = "ctor"
    THEN [raised |-> TRUE, s |-> s]
    ELSE LET gd == get_embedding_dimension(s.embedding_dimension,
                                           IF env.mf = "probe" THEN 0 ELSE s.model_dim)
             s1 == [s EXCEPT !.embedding_dimension = gd.dimension]
         IN  IF gd.raised \/ env.mf = "test"
             THEN [raised |-> TRUE, s |-> s1]
             ELSE [raised |-> FALSE, s |-> [s1 EXCEPT !.embedding_model = TRUE]]

\* str(user_id).replace('.', '_').replace('/', '_').replace('\\', '_'); the directory
\* is named user_<that>, so the sanitized id names it
get_user_index_path(user_id) ==
    [i \in DOMAIN user_id |-> IF user_id[i] \in {".", "/", "\\"} THEN "_" ELSE user_id[i]]

\* shutil.rmtree of the tenant directory; an OSError is logged and swallowed
delete_index_files(dk, index_path, env) ==
    IF index_path \in DOMAIN dk /\ env.df = "fail" THEN dk ELSE Remove(dk, index_path)

\* os.makedirs(index_path, exist_ok=True)
makedirs(dk, index_path, env) ==
    IF index_path \in DOMAIN dk
    THEN [raised |-> FALSE, disk |-> dk]
    ELSE IF env.mk
    THEN [raised |-> TRUE, disk |-> dk]
    ELSE [raised |-> FALSE, disk |-> Put(dk, index_path, EmptyDir)]

\* index.save_local(folder_path): index.faiss first, index.pkl second
save_local(dk, index_path, index, env) ==
    LET old == IF index_path \in DOMAIN dk THEN dk[index_path] ELSE EmptyDir
    IN  CASE env.sf = "none" ->
               [raised |-> FALSE,
                disk |-> Put(dk, index_path,
                             [faiss |-> WrittenFaiss(index), pkl |-> WrittenPkl(index)])]
          [] env.sf = "pkl" ->
               [raised |-> TRUE,
                disk |-> Put(dk, index_path, [faiss |-> WrittenFaiss(index), pkl |-> old.pkl])]
          [] OTHER -> [raised |-> TRUE, disk |-> dk]

\* what save_index does with an exception of makedirs or save_local
SaveFailure(sv) == [raised |-> FALSE, saved |-> FALSE, disk |-> sv.disk]

\* a tenant that is not cached makes the call raise
save_index_raising_uncached(cache, dk, user_id, env) ==
    IF user_id \notin DOMAIN cache
    THEN [raised |-> TRUE, saved |-> FALSE, disk |-> dk]
    ELSE LET index_path == get_user_index_path(user_id)
             mk == makedirs(dk, index_path, env)
             sv == save_local(mk.disk, index_path, cache[user_id], env)
         IN  IF mk.raised THEN SaveFailure(mk)
             ELSE IF sv.raised THEN SaveFailure(sv)
             ELSE [raised |-> FALSE, saved |-> TRUE, disk |-> sv.disk]

\* save_index: writes the object the cache holds for user_id
save_index(cache, dk, user_id, env) ==
    IF user_id \notin DOMAIN cache
    THEN [raised |-> FALSE, saved |-> FALSE, disk |-> dk]
    ELSE LET index_path == get_user_index_path(user_id)
             mk == makedirs(dk, index_path, env)
             sv == save_local(mk.disk, index_path, cache[user_id], env)
         IN  IF mk.raised THEN SaveFailure(mk)
             ELSE IF sv.raised THEN SaveFailure(sv)
             ELSE [raised |-> FALSE, saved |-> TRUE, disk |-> sv.disk]

----------------------------------------------------------------------------
(* load_or_create_index *)

\* what a call hands back: the state it leaves, whether it raised, the index it
\* returns, where the index came from ("cache", "disk", "new"), why the files were
\* recreated ("no", "corrupt", "dim", "single": one file of the two was there), and whether save_index wrote the index
Outcome(s, raised, index, how, recreate, saved) ==
    [s |-> s, raised |-> raised, index |-> index, how |-> how, recreate |-> recreate,
     saved |-> saved]

\* the dimension check left out
DimensionMismatch_unchecked(index, current_dim) == FALSE

\* an index without vectors is taken for one of another dimension
DimensionMismatch_or_empty(index, current_dim) == index.d # current_dim \/ ntotal(index) = 0

\* index.index.d != current_dim
DimensionMismatch(index, current_dim) == index.d # current_dim

\* the create-new block without its save_index call: the new index is cached only
CreateNewIndex_unsaved(s, user_id, current_dim, recreate, env) ==
    LET mk == makedirs(s.disk, get_user_index_path(user_id), env)
    IN  Outcome([s EXCEPT !.loaded_indices = Put(@, user_id, NewIndex(current_dim)),
                          !.disk = mk.disk],
                mk.raised, NewIndex(current_dim), "new", recreate, FALSE)

\* the create-new block caching the index before the directory is made and not
\* cleaning the cache when that fails
CreateNewIndex_cached_on_failure(s, user_id, current_dim, recreate, env) ==
    LET index_path == get_user_index_path(user_id)
        mk == makedirs(s.disk, index_path, env)
        cache == Put(s.loaded_indices, user_id, NewIndex(current_dim))
        sv == save_index(cache, mk.disk, user_id, env)
    IN  IF mk.raised
        THEN Outcome([s EXCEPT !.loaded_indices = cache], TRUE, NoIndex, "none", recreate, FALSE)
        ELSE Outcome([s EXCEPT !.loaded_indices = cache, !.disk = sv.disk],
                     FALSE, NewIndex(current_dim), "new", recreate, sv.saved)

\* the create-new block, lines 177-211
CreateNewIndex(s, user_id, current_dim, recreate, env) ==
    LET index_path == get_user_index_path(user_id)
        mk == makedirs(s.disk, index_path, env)
        index == NewIndex(current_dim)
        cache == Put(s.loaded_indices, user_id, index)
        sv == save_index(cache, mk.disk, user_id, env)
    IN  IF mk.raised
        THEN Outcome([s EXCEPT !.loaded_indices = Remove(@, user_id),
                               !.disk = delete_index_files(mk.disk, index_path, env)],
                     TRUE, NoIndex, "none", recreate, FALSE)
        ELSE Outcome([s EXCEPT !.loaded_indices = cache, !.disk = sv.disk],
                     FALSE, index, "new", recreate, sv.saved)

\* the except clauses around load_local left out: the load error leaves the function
OnLoadError_propagated(s, user_id, current_dim, env) ==
    Outcome(s, TRUE, NoIndex, "none", "corrupt", FALSE)

\* the except clauses around load_local, lines 166-175: the files are deleted and
\* the create-new block runs
OnLoadError(s, user_id, current_dim, env) ==
    CreateNewIndex([s EXCEPT !.disk = delete_index_files(@, get_user_index_path(user_id), env)],
                   user_id, current_dim, "corrupt", env)

\* a loaded index without vectors is taken for unusable and made anew
UseLoaded_empty_recreated(s, user_id, index, current_dim, env) ==
    IF ntotal(index) = 0
    THEN CreateNewIndex([s EXCEPT !.disk = delete_index_files(@, get_user_index_path(user_id), env)],
                        user_id, current_dim, "corrupt", env)
    ELSE Outcome([s EXCEPT !.loaded_indices = Put(@, user_id, index)],
                 FALSE, index, "disk", "no", FALSE)

\* lines 160-164: the loaded index is valid, with or without vectors; it is cached and
\* returned
UseLoaded(s, user_id, index, current_dim, env) ==
    Outcome([s EXCEPT !.loaded_indices = Put(@, user_id, index)],
            FALSE, index, "disk", "no", FALSE)

\* the files of the other dimension are deleted and the index loaded from them is
\* cached and returned all the same
OnDimensionMismatch_keeps_loaded(s, user_id, index, current_dim, env) ==
    Outcome([s EXCEPT !.disk = delete_index_files(@, get_user_index_path(user_id), env),
                      !.loaded_indices = Put(@, user_id, index)],
            FALSE, index, "disk", "dim", FALSE)

\* lines 149-159 and the fall through: force_recreate, the files are deleted and the
\* create-new block runs; the loaded index is dropped
OnDimensionMismatch(s, user_id, index, current_dim, env) ==
    CreateNewIndex([s EXCEPT !.disk = delete_index_files(@, get_user_index_path(user_id), env)],
                   user_id, current_dim, "dim", env)

\* where one of the two files is there, an index is put together from what it holds
\* and cached
OnMissingFile_keeps_remaining(s, user_id, current_dim, env) ==
    LET index_path == get_user_index_path(user_id)
        dir == s.disk[index_path]
        index == [d |-> IF dir.faiss.st = "ok" THEN dir.faiss.d ELSE current_dim,
                  ids |-> dir.faiss.ids, vecs |-> dir.faiss.vecs,
                  docstore |-> dir.pkl.docstore,
                  index_to_docstore_id |-> dir.pkl.index_to_docstore_id]
    IN  IF FileExists(s.disk, index_path, "faiss") \/ FileExists(s.disk, index_path, "pkl")
        THEN Outcome([s EXCEPT !.loaded_indices = Put(@, user_id, index)],
                     FALSE, index, "disk", "single", FALSE)
        ELSE CreateNewIndex(s, user_id, current_dim, "no", env)

\* the else of line 133, lines 177-203: a file is missing, nothing is loaded or
\* deleted and the create-new block runs; its save writes both files
OnMissingFile(s, user_id, current_dim, env) ==
    CreateNewIndex(s, user_id, current_dim,
                   IF FileExists(s.disk, get_user_index_path(user_id), "faiss")
                         \/ FileExists(s.disk, get_user_index_path(user_id), "pkl")
                   THEN "single" ELSE "no", env)

\* lines 123-175: the files are looked for, loaded and checked
LoadFromDisk(s, user_id, current_dim, env) ==
    LET index_path == get_user_index_path(user_id)
        ld == load_local(s.disk[index_path])
    IN  IF FileExists(s.disk, index_path, "faiss") /\ FileExists(s.disk, index_path, "pkl")
        THEN IF ld.raised
             THEN OnLoadError(s, user_id, current_dim, env)
             ELSE IF DimensionMismatch(ld.index, current_dim)
             THEN OnDimensionMismatch(s, user_id, ld.index, current_dim, env)
             ELSE UseLoaded(s, user_id, ld.index, current_dim, env)
        ELSE OnMissingFile(s, user_id, current_dim, env)

\* the cache is not looked at
CachedAndCurrent_never(s, user_id, current_dim) == FALSE

\* lines 110-115: user_id in loaded_indices, and the cached index has the model's dimension
CachedAndCurrent(s, user_id, current_dim) ==
    /\ user_id \in DOMAIN s.loaded_indices
    /\ ~DimensionMismatch(s.loaded_indices[user_id], current_dim)

load_or_create_index(s, user_id, env) ==
    LET gm == get_embedding_model(s, env)
        gd == get_embedding_dimension(gm.s.embedding_dimension, gm.s.model_dim)
        current_dim == gd.dimension
    IN  IF gm.raised \/ gd.raised
        THEN Outcome(gm.s, TRUE, NoIndex, "none", "no", FALSE)
        ELSE IF CachedAndCurrent(s, user_id, current_dim)
        THEN Outcome(gm.s, FALSE, s.loaded_indices[user_id], "cache", "no", FALSE)
        ELSE LoadFromDisk([gm.s EXCEPT !.loaded_indices = Remove(@, user_id)],
                          user_id, current_dim, env)

----------------------------------------------------------------------------
(* add_documents_to_index *)

\* embedder.embed_documents(texts): env.eo is "ok", or "raise", or "short" (one
\* vector too few), "dim" (every vector one component too long), "ragged" (the
\* last vector one component too long)
embed_documents(texts, dim, env) ==
    LET n == Len(texts)
        good == [i \in 1..n |-> Embed(texts[i], dim)]
        long == [i \in 1..n |-> Embed(texts[i], dim + 1)]
    IN  CASE env.eo = "ok" -> [raised |-> FALSE, embeddings |-> good]
          [] env.eo = "short" -> [raised |-> FALSE, embeddings |-> SubSeq(good, 1, n - 1)]
          [] env.eo = "dim" -> [raised |-> FALSE, embeddings |-> long]
          [] env.eo = "ragged" ->
               [raised |-> FALSE, embeddings |-> [i \in 1..n |-> IF i = n THEN long[i] ELSE good[i]]]
          [] OTHER -> [raised |-> TRUE, embeddings |-> <<>>]

\* np.array(embeddings, dtype=np.float32) raises on rows of different lengths
Ragged(embeddings) == \E i, j \in DOMAIN embeddings : Len(embeddings[i]) # Len(embeddings[j])

\* ids_np: the uuid4 draws masked to the width the vector index takes
MaskedIds(ids) == [i \in DOMAIN ids |-> FaissId(ids[i])]

\* index.index.add_with_ids(embeddings_np, ids_np)
add_with_ids(index, embeddings, ids_np) ==
    [index EXCEPT !.ids = @ \o ids_np, !.vecs = @ \o embeddings]

\* index.docstore.add({doc_id: doc}): raises on a key the docstore already holds
docstore_add(index, ids, documents) ==
    LET keys == Range(ids)
        last(k) == CHOOSE i \in DOMAIN ids :
                      ids[i] = k /\ \A j \in DOMAIN ids : ids[j] = k => j <= i
    IN  IF keys \cap DOMAIN index.docstore # {}
        THEN [raised |-> TRUE, index |-> index]
        ELSE [raised |-> FALSE,
              index |-> [index EXCEPT !.docstore =
                            [k \in (DOMAIN @) \cup keys |->
                                IF k \in keys THEN documents[last(k)] ELSE @[k]]]]

\* for i, faiss_id in enumerate(ids_np): index.index_to_docstore_id[int(faiss_id)] = ids[i]
RECURSIVE MapIds(_, _, _, _)
MapIds(mapping, ids_np, ids, i) ==
    IF i > Len(ids_np) THEN mapping
    ELSE MapIds(Put(mapping, ids_np[i], ids[i]), ids_np, ids, i + 1)

map_ids(index, ids_np, ids) ==
    [index EXCEPT !.index_to_docstore_id = MapIds(@, ids_np, ids, 1)]

\* what add_documents_to_index leaves: the state, whether it raised, the index it
\* resolved as it was before the mutation, and the outcome of the resolve and the save
AddOutcome(s, raised, before, lc, saved) ==
    [s |-> s, raised |-> raised, before |-> before, how |-> lc.how,
     recreate |-> lc.recreate, saved |-> saved]

NoResolve == [how |-> "none", recreate |-> "no"]

\* the empty-list check left out
NoDocuments_unchecked(documents) == FALSE

\* if not documents
NoDocuments(documents) == documents = <<>>

add_documents_to_index(s, user_id, documents, env) ==
    LET lc == load_or_create_index(s, user_id, env)
        index == lc.index
        gd == get_embedding_dimension(lc.s.embedding_dimension, lc.s.model_dim)
        current_dim == gd.dimension
        texts == [i \in DOMAIN documents |-> documents[i].page_content]
        em == embed_documents(texts, lc.s.model_dim, env)
        embeddings == em.embeddings
        ids == env.uuids
        ids_np == MaskedIds(ids)
        added == add_with_ids(index, embeddings, ids_np)
        stored == docstore_add(added, ids, documents)
        mapped == map_ids(stored.index, ids_np, ids)
        \* index is the object loaded_indices[user_id] holds: mutating it mutates the cache
        WithIndex(ix) == [lc.s EXCEPT !.loaded_indices = Put(@, user_id, ix)]
        sv == save_index(WithIndex(mapped).loaded_indices, lc.s.disk, user_id, env)
    IN  IF NoDocuments(documents) THEN AddOutcome(s, FALSE, NoIndex, NoResolve, FALSE)
        ELSE IF lc.raised THEN AddOutcome(lc.s, TRUE, NoIndex, lc, FALSE)
        ELSE IF DimensionMismatch(index, current_dim)
        THEN AddOutcome([lc.s EXCEPT
                            !.disk = delete_index_files(@, get_user_index_path(user_id), env),
                            !.loaded_indices = Remove(@, user_id)],
                        TRUE, index, lc, FALSE)
        ELSE IF em.raised THEN AddOutcome(lc.s, TRUE, index, lc, FALSE)
        ELSE IF Len(embeddings) = 0 \/ Len(embeddings) # Len(texts)
        THEN AddOutcome(lc.s, TRUE, index, lc, FALSE)
        ELSE IF Len(embeddings[1]) # current_dim THEN AddOutcome(lc.s, TRUE, index, lc, FALSE)
        ELSE IF Ragged(embeddings) THEN AddOutcome(lc.s, TRUE, index, lc, FALSE)
        ELSE IF stored.raised THEN AddOutcome(WithIndex(added), TRUE, index, lc, FALSE)
        ELSE AddOutcome([WithIndex(mapped) EXCEPT !.disk = sv.disk], FALSE, index, lc, sv.saved)

----------------------------------------------------------------------------
(* query_index *)

\* the characters of page_content that go into the deduplication key (200 in the
\* source), scaled down with the texts
KeyChars == 2

\* doc.page_content[:200]
Leading(text) == SubSeq(text, 1, IF Len(text) < KeyChars THEN Len(text) ELSE KeyChars)

\* f"{doc.metadata.get('documentName', 'Unknown')}_{doc.page_content[:200]}"
content_key(doc) == doc.documentName \o <<"_">> \o Leading(doc.page_content)

\* IndexFlatIP: the inner product of a stored vector and the query vector
RECURSIVE DotUpTo(_, _, _)
DotUpTo(v, w, i) == IF i = 0 THEN 0 ELSE v[i] * w[i] + DotUpTo(v, w, i - 1)

InnerProduct(v, w) == DotUpTo(v, w, Len(v))

\* faiss search on IndexFlatIP: the positions of the k stored vectors with the largest
\* inner product, largest first; among equal products the earlier or the later
\* insertion goes first, as env.tie says
RECURSIVE Nearest(_, _, _, _)
Nearest(scores, left, k, tie) ==
    IF k = 0 \/ left = {} THEN <<>>
    ELSE LET best == CHOOSE i \in left :
                        \A j \in left :
                            \/ scores[i] > scores[j]
                            \/ scores[i] = scores[j]
                               /\ (IF tie = "first" THEN i <= j ELSE i >= j)
         IN  <<best>> \o Nearest(scores, left \ {best}, k - 1, tie)

\* FAISS.similarity_search_with_score(query_text, k): embed_query, index.search, then
\* for every hit index_to_docstore_id[i] (a KeyError where the id has no entry) and
\* docstore.search (a ValueError where the record is missing); the score is the
\* inner product as faiss returns it
similarity_search_with_score(index, query_text, k, dim, se, tie) ==
    LET q == Embed(query_text, dim)
        scores == [i \in DOMAIN index.vecs |-> InnerProduct(index.vecs[i], q)]
        hits == Nearest(scores, DOMAIN index.vecs, k, tie)
        found(i) == /\ index.ids[i] \in DOMAIN index.index_to_docstore_id
                    /\ index.index_to_docstore_id[index.ids[i]] \in DOMAIN index.docstore
        record(i) == index.docstore[index.index_to_docstore_id[index.ids[i]]]
    IN  IF se = "raise" \/ index.d # dim \/ \E j \in DOMAIN hits : ~found(hits[j])
        THEN [raised |-> TRUE, results |-> <<>>]
        ELSE [raised |-> FALSE,
              results |-> [j \in DOMAIN hits |->
                              [doc |-> record(hits[j]), score |-> scores[hits[j]]]]]

\* every index is searched, the empty one too
HasVectors_always(index) == TRUE

\* index.index.ntotal > 0, the test before the search
HasVectors(index) == ntotal(index) > 0

\* the block writing the index it resolved back to its files
QueryOneIndex_persisting(s, index_user_id, query_text, k, env, se, tie) ==
    LET lc == load_or_create_index(s, index_user_id, env)
        found == similarity_search_with_score(lc.index, query_text, k, lc.s.model_dim, se, tie)
        sv == save_index(lc.s.loaded_indices, lc.s.disk, index_user_id, env)
        s1 == [lc.s EXCEPT !.disk = sv.disk]
    IN  IF lc.raised
        THEN [s |-> lc.s, failed |-> "resolve", searched |-> FALSE, results |-> <<>>]
        ELSE IF ~HasVectors(lc.index)
        THEN [s |-> s1, failed |-> "no", searched |-> FALSE, results |-> <<>>]
        ELSE IF found.raised
        THEN [s |-> s1, failed |-> "search", searched |-> TRUE, results |-> <<>>]
        ELSE [s |-> s1, failed |-> "no", searched |-> TRUE, results |-> found.results]

\* one of the two inner try blocks of query_index: resolve the index, search it when
\* it has vectors; any exception is logged and the block contributes nothing.
\* searched: similarity_search_with_score was called
QueryOneIndex(s, index_user_id, query_text, k, env, se, tie) ==
    LET lc == load_or_create_index(s, index_user_id, env)
        found == similarity_search_with_score(lc.index, query_text, k, lc.s.model_dim, se, tie)
    IN  IF lc.raised
        THEN [s |-> lc.s, failed |-> "resolve", searched |-> FALSE, results |-> <<>>]
        ELSE IF ~HasVectors(lc.index)
        THEN [s |-> lc.s, failed |-> "no", searched |-> FALSE, results |-> <<>>]
        ELSE IF found.raised
        THEN [s |-> lc.s, failed |-> "search", searched |-> TRUE, results |-> <<>>]
        ELSE [s |-> lc.s, failed |-> "no", searched |-> TRUE, results |-> found.results]

\* the comparison left out: the first occurrence of a key stays
Better_never(score, kept) == FALSE

\* score < unique_results[unique_key][1]
Better(score, kept) == score < kept

\* the deduplication loop: unique_results is a dict, so a key keeps the place of its
\* first insertion and its entry is replaced when a lower score comes
RECURSIVE Deduplicate(_, _)
Deduplicate(unique_results, all_results_with_scores) ==
    IF all_results_with_scores = <<>> THEN unique_results
    ELSE LET item == Head(all_results_with_scores)
             unique_key == content_key(item.doc)
             at == {i \in DOMAIN unique_results :
                       content_key(unique_results[i].doc) = unique_key}
             next == IF at = {} THEN Append(unique_results, item)
                     ELSE IF \E i \in at : Better(item.score, unique_results[i].score)
                     THEN [i \in DOMAIN unique_results |->
                              IF i \in at THEN item ELSE unique_results[i]]
                     ELSE unique_results
         IN  Deduplicate(next, Tail(all_results_with_scores))

\* the sort left out: the values in the order of the dict
sorted_by_score_unsorted(items) == items

\* sorted(unique_results.values(), key=lambda item: item[1]): ascending and stable
RECURSIVE sorted_by_score(_)
sorted_by_score(items) ==
    IF items = <<>> THEN <<>>
    ELSE LET first == CHOOSE i \in DOMAIN items :
                         \A j \in DOMAIN items :
                             \/ items[i].score < items[j].score
                             \/ items[i].score = items[j].score /\ i <= j
         IN  <<items[first]>>
             \o sorted_by_score([j \in 1..(Len(items) - 1) |->
                                    IF j < first THEN items[j] ELSE items[j + 1]])

\* the cut left out
FirstK_uncut(items, k) == items

\* sorted_results[:k], k >= 0
FirstK(items, k) == SubSeq(items, 1, IF Len(items) < k THEN Len(items) ELSE k)

\* what query_index leaves: the state, whether it raised, the list it returned, the
\* raw results it collected, and how each of the two blocks went
QueryOutcome(s, raised, results, collected, user_part, default_part) ==
    [s |-> s, raised |-> raised, results |-> results, collected |-> collected,
     user_part |-> user_part, default_part |-> default_part]

Skipped(s) == [s |-> s, failed |-> "skipped", searched |-> FALSE, results |-> <<>>]

\* the block for the default index runs for every user id but the default's own
QueryDefaultIndex(s, user_id, query_text, k, env) ==
    IF user_id # DEFAULT_INDEX_USER_ID
    THEN QueryOneIndex(s, DEFAULT_INDEX_USER_ID, query_text, k, env.shared, env.se_shared,
                       env.tie)
    ELSE Skipped(s)

\* a failed block ends the query with nothing, whatever the other block found
MergeResults_all_or_nothing(own, shared, k) ==
    IF {own.failed, shared.failed} \cap {"resolve", "search"} # {}
    THEN QueryOutcome(shared.s, FALSE, <<>>, own.results \o shared.results,
                      [failed |-> own.failed, searched |-> own.searched, results |-> own.results],
                      [failed |-> shared.failed, searched |-> shared.searched,
                  results |-> shared.results])
    ELSE QueryOutcome(shared.s, FALSE,
                      FirstK(sorted_by_score(Deduplicate(<<>>, own.results \o shared.results)), k),
                      own.results \o shared.results,
                      [failed |-> own.failed, searched |-> own.searched, results |-> own.results],
                      [failed |-> shared.failed, searched |-> shared.searched,
                  results |-> shared.results])

\* lines 329-349: deduplicate, sort, cut to k
MergeResults(own, shared, k) ==
    QueryOutcome(shared.s, FALSE,
                 FirstK(sorted_by_score(Deduplicate(<<>>, own.results \o shared.results)), k),
                 own.results \o shared.results,
                 [failed |-> own.failed, searched |-> own.searched, results |-> own.results],
                 [failed |-> shared.failed, searched |-> shared.searched,
                  results |-> shared.results])

\* query_index: the model load outside the try block, then the user's index, the
\* default index and the merge, each on the state the one before left
query_index(s, user_id, query_text, k, env) ==
    CHOOSE r \in
        UNION {IF gm.raised \/ ~gm.s.embedding_model
               THEN {QueryOutcome(gm.s, TRUE, <<>>, <<>>,
                                  [failed |-> "skipped", searched |-> FALSE, results |-> <<>>],
                                  [failed |-> "skipped", searched |-> FALSE, results |-> <<>>])}
               ELSE UNION {{MergeResults(own, shared, k) :
                               shared \in {QueryDefaultIndex(own.s, user_id, query_text, k, env)}} :
                           own \in {QueryOneIndex(gm.s, user_id, query_text, k, env.own,
                                                  env.se_own, env.tie)}} :
               gm \in {get_embedding_model(s, env)}} : TRUE

----------------------------------------------------------------------------
(* The environment's choices *)

\* every call succeeds in its I/O, its model load and its embedding
Nominal ==
    [mf |-> {"none"}, mk |-> {FALSE}, sf |-> {"none"}, df |-> {"none"}, eo |-> {"ok"},
     se |-> {"none"}, ids |-> "any"]

\* each of them may fail
Faulty ==
    [mf |-> {"none", "ctor", "probe", "test"}, mk |-> BOOLEAN,
     sf |-> {"none", "nothing", "pkl"}, df |-> {"none", "fail"},
     eo |-> {"ok", "raise", "short", "dim", "ragged"}, se |-> {"none", "raise"},
     ids |-> "any"]

\* the tenant resolves from the cache and its directory is there: the call loads no
\* model, deletes nothing and creates no directory, so those choices are not read
Quiet(user_id) ==
    /\ embedding_model
    /\ user_id \in DOMAIN loaded_indices
    /\ ~DimensionMismatch(loaded_indices[user_id], embedding_dimension)
    /\ get_user_index_path(user_id) \in DOMAIN disk

NoFault == [mf |-> "none", mk |-> FALSE, sf |-> "none", df |-> "none", eo |-> "ok", uuids |-> <<>>]

\* the record keys of the index the call will resolve, when it resolves one
KeysInUse(user_id) == DOMAIN load_or_create_index(State, user_id, NoFault).index.docstore

\* uuid4 draws: a value is never drawn twice.  Which unused value is drawn shows only
\* in its masked id, so for each masked id the least unused value stands for them all
Draws(n, used) ==
    {q \in [1..n -> UUIDs] :
        \A i \in 1..n :
            LET taken == used \cup {q[j] : j \in 1..(i - 1)}
            IN  /\ q[i] \notin taken
                /\ \A u \in UUIDs \ taken : FaissId(u) = FaissId(q[i]) => q[i] <= u}

\* the draws mask to ids that differ from each other and from those of the index the
\* call will resolve, as all but a vanishing share of uuid4 draws do
Apart(q, taken) ==
    /\ \A i, j \in DOMAIN q : i # j => FaissId(q[i]) # FaissId(q[j])
    /\ \A i \in DOMAIN q : FaissId(q[i]) \notin taken

\* the integer ids of the index the call will resolve
IdsInUse(user_id) == Range(load_or_create_index(State, user_id, NoFault).index.ids)

\* the uuid4 draws of an ingest of n documents
FreshDraws(F, user_id, n) ==
    LET used == KeysInUse(user_id)
        taken == IdsInUse(user_id)
    IN  {q \in Draws(n, used) : F.ids = "any" \/ Apart(q, taken)}

\* a failed model load: it ends the call that asked for the model
ModelFaults(F) ==
    {env \in {[NoFault EXCEPT !.mf = mf] : mf \in F.mf} : get_embedding_model(State, env).raised}

\* the choices a call of get_embedding_model reads
ModelEnvs(F) ==
    ModelFaults(F) \cup (IF "none" \in F.mf THEN {NoFault} ELSE {})

\* the choices a call of load_or_create_index reads once the model is there, its
\* writes going one of the ways sfs.  rmtree runs only where the files are found
\* corrupt or of another dimension, and makedirs can fail only where the directory is
\* missing by then
ResolveEnvs(F, user_id, sfs) ==
    LET course == load_or_create_index(State, user_id, NoFault)
        deletes == course.recreate \in {"corrupt", "dim"}
        creates == course.how = "new"
        missing == deletes \/ get_user_index_path(user_id) \notin DOMAIN disk
    IN  IF Quiet(user_id) THEN {[NoFault EXCEPT !.sf = sf] : sf \in sfs}
        ELSE {[NoFault EXCEPT !.mk = mk, !.sf = sf, !.df = df] :
                 mk \in (IF creates /\ missing THEN F.mk ELSE {FALSE}),
                 sf \in sfs,
                 df \in (IF deletes THEN F.df ELSE {"none"})}

\* save_index runs in load_or_create_index only where a new index is created
CreateWrites(F, user_id) ==
    IF load_or_create_index(State, user_id, NoFault).how = "new" THEN F.sf ELSE {"none"}

LoadEnvs(F, user_id) ==
    ModelFaults(F) \cup ResolveEnvs(F, user_id, CreateWrites(F, user_id))

\* the choices a call of add_documents_to_index with n documents reads: the uuid4
\* draws and the save at its end are reached only with embeddings that pass the checks
AddEnvs(F, user_id, n) ==
    IF n = 0 THEN {NoFault}
    ELSE ModelFaults(F)
         \cup
         {[env EXCEPT !.eo = eo] :
             env \in ResolveEnvs(F, user_id, CreateWrites(F, user_id)),
             eo \in F.eo \ {"ok"}}
         \cup
         {[env EXCEPT !.uuids = uuids] :
             env \in ResolveEnvs(F, user_id, F.sf),
             uuids \in FreshDraws(F, user_id, n)}

\* the document lists of length n
Batches(pool, n) == [1..n -> pool]

\* the model load, the directory creations and the searches of a query may fail; the
\* integer ids of the ingested vectors do not collide
QueryFaulty ==
    [mf |-> {"none", "ctor"}, mk |-> BOOLEAN, sf |-> {"none"}, df |-> {"none"},
     eo |-> {"ok"}, se |-> {"none", "raise"}, ids |-> "apart"]

\* embed_query and the search run only on an index that holds vectors
SearchFaults(F, user_id) ==
    IF ntotal(load_or_create_index(State, user_id, NoFault).index) > 0 THEN F.se ELSE {"none"}

\* the order of equal scores shows only where a searched index holds two vectors
TieOrders(users) ==
    IF \E u \in users : ntotal(load_or_create_index(State, u, NoFault).index) > 1
    THEN {"first", "last"} ELSE {"first"}

\* the choices a call of query_index(user_id, ...) reads: the model load, then for
\* each of the two indices its resolve and its search, and the order of equal scores
QueryEnvs(F, user_id) ==
    ModelFaults(F)
    \cup
    {[mf |-> "none", own |-> own, shared |-> shared, se_own |-> se_own,
      se_shared |-> se_shared, tie |-> tie] :
        own \in ResolveEnvs(F, user_id, CreateWrites(F, user_id)),
        shared \in (IF user_id = DEFAULT_INDEX_USER_ID THEN {NoFault}
                    ELSE ResolveEnvs(F, DEFAULT_INDEX_USER_ID,
                                     CreateWrites(F, DEFAULT_INDEX_USER_ID))),
        se_own \in SearchFaults(F, user_id),
        se_shared \in (IF user_id = DEFAULT_INDEX_USER_ID THEN {"none"}
                       ELSE SearchFaults(F, DEFAULT_INDEX_USER_ID)),
        tie \in TieOrders({user_id, DEFAULT_INDEX_USER_ID})}

----------------------------------------------------------------------------
(* The state machine *)

\* the request threads of the server
Threads == {"t1", "t2"}

\* a thread that is in no call.  ref says where the index object of its local variable
\* index is: "cache" is the object loaded_indices holds for user_id, "own" an object
\* the cache holds no longer, kept in own.  ctor: its call ran the model constructor.
\* searched: the indices its query searched, as they were then
Idle ==
    [pc |-> "idle", op |-> "none", user_id |-> NoUser, documents |-> <<>>, ids |-> <<>>,
     query_text |-> <<>>, k |-> 0, ref |-> "none", own |-> NoIndex, ctor |-> FALSE,
     searched |-> <<>>, user_part |-> [failed |-> "skipped", searched |-> FALSE, results |-> <<>>],
     results |-> <<>>]

Ret(op, user_id, raised, how, recreate, saved, n, index) ==
    [op |-> op, user_id |-> user_id, raised |-> raised, how |-> how,
     recreate |-> recreate, saved |-> saved, n |-> n, index |-> index]

NoPersist == [user_id |-> NoUser, index |-> NoIndex]

\* the index save_index wrote in this call, when it did
Persisted(saved, s, user_id) ==
    IF saved THEN [user_id |-> user_id, index |-> s.loaded_indices[user_id]] ELSE NoPersist

Leave(s) ==
    /\ embedding_model' = s.embedding_model
    /\ embedding_dimension' = s.embedding_dimension
    /\ loaded_indices' = s.loaded_indices
    /\ disk' = s.disk
    /\ model_dim' = s.model_dim

Init ==
    /\ embedding_model = FALSE
    /\ embedding_dimension = 0
    /\ loaded_indices = EmptyDict
    /\ disk = EmptyDict
    /\ model_dim \in Dims
    /\ ret = Ret("init", NoUser, FALSE, "none", "no", FALSE, 0, NoIndex)
    /\ last_persist = NoPersist
    /\ threads = [t \in Threads |-> Idle]

\* app.py's start-up call of get_embedding_model()
Startup(F) ==
    \E env \in ModelEnvs(F) :
        \E r \in {get_embedding_model(State, env)} :
            /\ ~embedding_model
            /\ Leave(r.s)
            /\ ret' = Ret("model", NoUser, r.raised, "none", "no", FALSE, 0, NoIndex)
            /\ last_persist' = NoPersist
            /\ UNCHANGED threads

LoadOrCreateIndexFor(F, users) ==
    \E user_id \in users : \E env \in LoadEnvs(F, user_id) :
        \E r \in {load_or_create_index(State, user_id, env)} :
            /\ Leave(r.s)
            /\ ret' = Ret("load", user_id, r.raised, r.how, r.recreate, r.saved, 0, r.index)
            /\ last_persist' = Persisted(r.saved, r.s, user_id)
            /\ UNCHANGED threads

LoadOrCreateIndex(F) == LoadOrCreateIndexFor(F, Tenants)

AddDocumentsFor(F, users, pool) ==
    \E user_id \in users : \E n \in 0..MaxBatch : \E env \in AddEnvs(F, user_id, n) :
        \E documents \in Batches(pool, n) :
            \E r \in {add_documents_to_index(State, user_id, documents, env)} :
                /\ r.raised \/ Len(env.uuids) = Len(documents)
                /\ Range(env.uuids) \cap DOMAIN r.before.docstore = {}
                /\ ntotal(r.before) + Len(documents) <= MaxVectors
                /\ Leave(r.s)
                /\ ret' = Ret("add", user_id, r.raised, r.how, r.recreate, r.saved,
                              Len(documents), r.before)
                /\ last_persist' = Persisted(r.saved, r.s, user_id)
                /\ UNCHANGED threads

AddDocuments(F, pool) == AddDocumentsFor(F, Tenants, pool)

\* what a query_index call was asked and what it gave back
QueryRet(user_id, query_text, k, r) ==
    Ret("query", user_id, r.raised, "none", "no", FALSE, 0, NoIndex)
    @@ [query_text |-> query_text, k |-> k, results |-> r.results,
        collected |-> r.collected, user_part |-> r.user_part,
        default_part |-> r.default_part]

QueryIndex(F, users, texts) ==
    \E user_id \in users : \E env \in QueryEnvs(F, user_id) :
        \E query_text \in texts : \E k \in 0..MaxK :
            \E r \in {query_index(State, user_id, query_text, k, env)} :
                /\ Leave(r.s)
                /\ ret' = QueryRet(user_id, query_text, k, r)
                /\ last_persist' = NoPersist
                /\ UNCHANGED threads

\* the process is killed and started again; the configured model may have changed
Restart ==
    \E d \in Dims :
        /\ embedding_model' = FALSE
        /\ embedding_dimension' = 0
        /\ loaded_indices' = EmptyDict
        /\ model_dim' = d
        /\ ret' = Ret("restart", NoUser, FALSE, "none", "no", FALSE, 0, NoIndex)
        /\ last_persist' = IF d = model_dim THEN last_persist ELSE NoPersist
        /\ UNCHANGED <<disk, threads>>

\* one of a tenant's files is truncated or overwritten with garbage
Corrupt ==
    \E path \in DOMAIN disk : \E which \in {"faiss", "pkl"} :
        /\ FileExists(disk, path, which)
        /\ disk' = [disk EXCEPT ![path][which] =
                        IF which = "faiss" THEN CorruptFaiss ELSE CorruptPkl]
        /\ ret' = Ret("corrupt", NoUser, FALSE, "none", "no", FALSE, 0, NoIndex)
        /\ last_persist' = NoPersist
        /\ UNCHANGED <<embedding_model, embedding_dimension, loaded_indices, model_dim, threads>>

Step(F, pool) ==
    \/ Startup(F)
    \/ LoadOrCreateIndex(F)
    \/ AddDocuments(F, pool)
    \/ Restart
    \/ Corrupt

\* every call may fail the ways the environment can make it fail
Next == Step(Faulty, DocPool)

Spec == Init /\ [][Next]_vars

\* every model load, directory creation, deletion, write and embedding succeeds
NextNominal == Step(Nominal, DocPool)

SpecNominal == Init /\ [][NextNominal]_vars

\* the query scenarios: model loads, resolves and ingests for a user and for the
\* default index, closed by one query_index call.  What a query leaves in the cache
\* and on disk is what the resolves of its two indices leave, and those are steps of
\* their own, so every state a run with queries in between reaches is reached here
NextQuery ==
    \/ ret.op # "query" /\ Startup(QueryFaulty)
    \/ ret.op # "query" /\ LoadOrCreateIndexFor(QueryFaulty, QueryUsers)
    \/ ret.op # "query" /\ AddDocumentsFor(QueryFaulty, QueryUsers, QueryPool)
    \/ ret.op # "query" /\ QueryIndex(QueryFaulty, QueryUsers, QueryTexts)

\* the scenarios run with the model of the smaller dimension: no step of them changes
\* the model, and a query reads the dimension only to embed its text
InitQuery == Init /\ model_dim = 2

SpecQuery == InitQuery /\ [][NextQuery]_vars

----------------------------------------------------------------------------
(* Chunks of files whose names and texts hold the underscore that joins the *)
(* deduplication key                                                        *)

\* nothing fails and the integer ids do not collide
KeyEnv == [Nominal EXCEPT !.ids = "apart"]

NextKeys ==
    \/ ret.op # "query" /\ Startup(Nominal)
    \/ ret.op # "query" /\ AddDocumentsFor(KeyEnv, QueryUsers, KeyPool)
    \/ ret.op # "query" /\ QueryIndex(KeyEnv, QueryUsers, {<<"c">>})

SpecKeys == InitQuery /\ [][NextKeys]_vars

----------------------------------------------------------------------------
(* Two tenants whose ids get_user_index_path maps to one directory *)

NextTenants ==
    \/ ret.op # "query" /\ Startup(Nominal)
    \/ ret.op # "query" /\ \E user_id \in AliasUsers \cup {DEFAULT_INDEX_USER_ID} :
                               AddDocumentsFor(KeyEnv, {user_id}, TenantDocs(user_id))
    \/ ret.op # "query" /\ QueryIndex(KeyEnv, AliasUsers, {Bananas})

SpecTenants == InitQuery /\ [][NextTenants]_vars

----------------------------------------------------------------------------
(* Queries on indices that are cached, on disk, corrupt, of another         *)
(* dimension or missing                                                     *)

NextFrame ==
    \/ ret.op # "query" /\ Startup(Nominal)
    \/ ret.op # "query" /\ AddDocumentsFor(KeyEnv, QueryUsers, DocPool)
    \/ ret.op # "query" /\ Restart
    \/ ret.op # "query" /\ Corrupt
    \/ ret.op # "query" /\ QueryIndex(QueryFaulty, QueryUsers, {<<"A">>})

SpecFrame == Init /\ [][NextFrame]_vars

----------------------------------------------------------------------------
(* The default index builder, default.py.  It is a script: a process of its *)
(* own, with its own embedding_model and loaded_indices, that shares only   *)
(* the files with the server.                                               *)

\* DefaultVectorDBBuilder.__init__: the model is loaded and the directory of the
\* default index is made
DefaultVectorDBBuilder(s, env) ==
    LET gm == get_embedding_model(s, env)
        mk == makedirs(gm.s.disk, get_user_index_path(DEFAULT_INDEX_USER_ID), env)
    IN  IF gm.raised \/ mk.raised
        THEN [raised |-> TRUE, s |-> gm.s]
        ELSE [raised |-> FALSE, s |-> [gm.s EXCEPT !.disk = mk.disk]]

\* what create_default_index leaves: the state, the value it returned, and whether
\* it removed files (all of them, some of them) or found none
BuildOutcome(s, ok, removed, saved) == [s |-> s, ok |-> ok, removed |-> removed, saved |-> saved]

\* os.remove of one of the two files
RemoveFile(dk, index_path, which) ==
    [dk EXCEPT ![index_path][which] = IF which = "faiss" THEN AbsentFaiss ELSE AbsentPkl]

\* lines 68-81: the files are removed one after the other and the cache entry is
\* dropped; env.rm names the file whose os.remove raises OSError, which ends the
\* call with False
ForceRebuild(s, env) ==
    LET index_path == get_user_index_path(DEFAULT_INDEX_USER_ID)
        has_faiss == FileExists(s.disk, index_path, "faiss")
        has_pkl == FileExists(s.disk, index_path, "pkl")
        s1 == IF has_faiss THEN [s EXCEPT !.disk = RemoveFile(@, index_path, "faiss")] ELSE s
        s2 == IF has_pkl THEN [s1 EXCEPT !.disk = RemoveFile(@, index_path, "pkl")] ELSE s1
    IN  IF ~(has_faiss \/ has_pkl) THEN BuildOutcome(s, TRUE, "no", FALSE)
        ELSE IF has_faiss /\ env.rm = "faiss" THEN BuildOutcome(s, FALSE, "no", FALSE)
        ELSE IF has_pkl /\ env.rm = "pkl"
        THEN BuildOutcome(s1, FALSE, IF has_faiss THEN "some" ELSE "no", FALSE)
        ELSE BuildOutcome([s2 EXCEPT !.loaded_indices = Remove(@, DEFAULT_INDEX_USER_ID)],
                          TRUE, "all", FALSE)

\* create_default_index(force_rebuild), all_documents being the chunks of the files of
\* the assets directory: every exception is caught and answered with False.  With
\* force_rebuild False and a file of the index there (lines 82-92) the index is only
\* resolved. load_or_create_index and add_documents_to_index are calls of their own:
\* env.add_sf tells how the save of the second fares
create_default_index(s, force_rebuild, all_documents, env) ==
    LET index_path == get_user_index_path(DEFAULT_INDEX_USER_ID)
        written(dk) == FileExists(dk, index_path, "faiss") /\ FileExists(dk, index_path, "pkl")
        exists == FileExists(s.disk, index_path, "faiss") \/ FileExists(s.disk, index_path, "pkl")
    IN  CHOOSE r \in
            UNION {IF ~fr.ok THEN {fr}
                   ELSE UNION {IF (~force_rebuild /\ exists) \/ all_documents = <<>>
                               THEN {BuildOutcome(lc.s, ~lc.raised, fr.removed, lc.saved)}
                               ELSE IF lc.raised
                               THEN {BuildOutcome(lc.s, FALSE, fr.removed, FALSE)}
                               ELSE {BuildOutcome(ad.s, ~ad.raised /\ written(ad.s.disk),
                                                  fr.removed, ad.saved) :
                                        ad \in {add_documents_to_index(
                                                    lc.s, DEFAULT_INDEX_USER_ID,
                                                    all_documents,
                                                    [env EXCEPT !.sf = env.add_sf])}} :
                               lc \in {load_or_create_index(fr.s, DEFAULT_INDEX_USER_ID, env)}} :
                   fr \in {IF force_rebuild THEN ForceRebuild(s, env)
                           ELSE BuildOutcome(s, TRUE, "no", FALSE)}} : TRUE

\* the os.remove calls of a forced rebuild that can fail: those of the files there are
RemoveFaults ==
    {"none"} \cup {which \in {"faiss", "pkl"} :
                      FileExists(disk, get_user_index_path(DEFAULT_INDEX_USER_ID), which)}

\* main() of default.py in a process that has just started: the builder is made and
\* create_default_index(force_rebuild=True) runs on the chunks of the assets files.
\* ret.recreate tells what became of the old files, ret.how whether it returned True
RunDefaultBuilder(pool) ==
    \E n \in 0..MaxBatch : \E rm \in RemoveFaults : \E uuids \in Draws(n, {}) :
        \E all_documents \in Batches(pool, n) :
            \E b \in {DefaultVectorDBBuilder(State, NoFault)} :
                \E r \in {create_default_index(b.s, TRUE, all_documents,
                                                [NoFault EXCEPT !.uuids = uuids]
                                                @@ [rm |-> rm, add_sf |-> "none"])} :
                    /\ ~embedding_model
                    /\ loaded_indices = EmptyDict
                    /\ ~b.raised
                    /\ Leave(r.s)
                    /\ ret' = Ret("rebuild", DEFAULT_INDEX_USER_ID, FALSE,
                                  IF r.ok THEN "new" ELSE "none",
                                  IF r.removed = "no" THEN "no" ELSE r.removed,
                                  r.saved, n, NoIndex)
                    /\ last_persist' = Persisted(r.saved, r.s, DEFAULT_INDEX_USER_ID)
                    /\ UNCHANGED threads

\* every call succeeds but the deletions, which may fail
Deleting == [Nominal EXCEPT !.df = {"none", "fail"}]

\* the server and the builder by turns on the files of the default index: the builder
\* runs in a new process, and when it has exited the next process starts
NextRebuild ==
    \/ ret.op # "rebuild" /\ Startup(Nominal)
    \/ ret.op # "rebuild" /\ LoadOrCreateIndexFor(Deleting, {DEFAULT_INDEX_USER_ID})
    \/ ret.op # "rebuild" /\ AddDocumentsFor(Deleting, {DEFAULT_INDEX_USER_ID}, DocPool)
    \/ ret.op # "rebuild" /\ Corrupt
    \/ Restart
    \/ RunDefaultBuilder(DocPool)

SpecRebuild == Init /\ [][NextRebuild]_vars

\* the chunks of two asset files
BuildPool == {Document(<<"A">>, <<"f", "1">>), Document(<<"B">>, <<"f", "2">>)}

\* the directory creation of the resolve and the save of the ingest may fail
BuildFaulty == [Nominal EXCEPT !.mk = BOOLEAN, !.sf = {"none", "nothing", "pkl"}]

\* a builder made in a process that has just started, and create_default_index called
\* with either value of force_rebuild.  ret tells what was asked and what came back.
\* A forced rebuild leaves the directory in place, so its resolve makes none; a run
\* without chunks makes no ingest
BuildDefaultIndex(F, pool) ==
    \E force_rebuild \in BOOLEAN : \E n \in 0..MaxBatch :
        \E rm \in IF force_rebuild THEN RemoveFaults ELSE {"none"} :
        \E mk \in IF force_rebuild THEN {FALSE} ELSE F.mk :
        \E add_sf \in IF n = 0 THEN {"none"} ELSE F.sf : \E uuids \in Draws(n, {}) :
            \E all_documents \in Batches(pool, n) :
                \E b \in {DefaultVectorDBBuilder(State, NoFault)} :
                    \E r \in {create_default_index(
                                  b.s, force_rebuild, all_documents,
                                  [NoFault EXCEPT !.uuids = uuids, !.mk = mk]
                                  @@ [rm |-> rm, add_sf |-> add_sf])} :
                        /\ ~embedding_model
                        /\ loaded_indices = EmptyDict
                        /\ ~b.raised
                        /\ Leave(r.s)
                        /\ ret' = Ret("build", DEFAULT_INDEX_USER_ID, FALSE,
                                      IF r.ok THEN "new" ELSE "none", r.removed,
                                      r.saved, n, NoIndex)
                                  @@ [force_rebuild |-> force_rebuild,
                                      all_documents |-> all_documents, ok |-> r.ok]
                        /\ last_persist' = Persisted(r.saved, r.s, DEFAULT_INDEX_USER_ID)
                        /\ UNCHANGED threads

\* builder runs, each in a process of its own, on files that may have been damaged
\* and with a model that may have changed in between
NextBuild ==
    \/ ret.op # "build" /\ Corrupt
    \/ Restart
    \/ BuildDefaultIndex(BuildFaulty, BuildPool)

SpecBuild == Init /\ [][NextBuild]_vars

----------------------------------------------------------------------------
(* The health check, app.py *)

\* every failure is passed over: the answer is "ok" with 200
HealthStatus_always_ok(failed) == [status |-> "ok", http_status_code |-> 200]

\* lines 30-41, 82-84, 92-93: "error" with 503 unless the try block ran to its end
HealthStatus(failed) ==
    IF failed
    THEN [status |-> "error", http_status_code |-> 503]
    ELSE [status |-> "ok", http_status_code |-> 200]

\* what health_check answers and the state it leaves.  embedding_dimension is 0 for
\* None and -1 for the text of an error
HealthOutcome(s, failed, dimension, loaded, vectors, dim) ==
    [s |-> s, embedding_dimension |-> dimension, default_index_loaded |-> loaded,
     default_index_vectors |-> vectors, default_index_dim |-> dim]
    @@ HealthStatus(failed)

\* health_check: the module's embedding_model is read, not loaded; the default index
\* is taken from the cache or resolved
health_check(s, env) ==
    LET gd == get_embedding_dimension(s.embedding_dimension, s.model_dim)
        dimension == IF gd.raised THEN -1 ELSE gd.dimension
    IN  IF ~s.embedding_model THEN HealthOutcome(s, TRUE, 0, FALSE, 0, 0)
        ELSE IF DEFAULT_INDEX_USER_ID \in DOMAIN s.loaded_indices
        THEN HealthOutcome(s, FALSE, dimension, TRUE,
                           ntotal(s.loaded_indices[DEFAULT_INDEX_USER_ID]),
                           s.loaded_indices[DEFAULT_INDEX_USER_ID].d)
        ELSE CHOOSE r \in
                 {IF lc.raised THEN HealthOutcome(lc.s, TRUE, dimension, FALSE, 0, 0)
                  ELSE HealthOutcome(lc.s, FALSE, dimension, TRUE, ntotal(lc.index),
                                     lc.index.d) :
                     lc \in {load_or_create_index(s, DEFAULT_INDEX_USER_ID, env)}} : TRUE

\* the choices a health check reads: those of the resolve, where it comes to one
HealthEnvs(F) ==
    IF embedding_model /\ DEFAULT_INDEX_USER_ID \notin DOMAIN loaded_indices
    THEN ResolveEnvs(F, DEFAULT_INDEX_USER_ID, CreateWrites(F, DEFAULT_INDEX_USER_ID))
    ELSE {NoFault}

\* GET /health
HealthCheck(F) ==
    \E env \in HealthEnvs(F) :
        \E r \in {health_check(State, env)} :
            /\ Leave(r.s)
            /\ ret' = Ret("health", DEFAULT_INDEX_USER_ID, FALSE, "none", "no", FALSE, 0, NoIndex)
                      @@ [status |-> r.status, http_status_code |-> r.http_status_code,
                          embedding_dimension |-> r.embedding_dimension,
                          default_index_loaded |-> r.default_index_loaded,
                          default_index_vectors |-> r.default_index_vectors,
                          default_index_dim |-> r.default_index_dim]
            /\ last_persist' = NoPersist
            /\ UNCHANGED threads

\* the model load and the directory creations may fail
HealthFaulty == [Nominal EXCEPT !.mf = {"none", "ctor", "test"}, !.mk = BOOLEAN]

\* the service with its default index, asked for its health at any point
NextHealth ==
    \/ Startup(HealthFaulty)
    \/ LoadOrCreateIndexFor(HealthFaulty, {DEFAULT_INDEX_USER_ID})
    \/ AddDocumentsFor(HealthFaulty, {DEFAULT_INDEX_USER_ID}, DocPool)
    \/ Restart
    \/ Corrupt
    \/ HealthCheck(HealthFaulty)

SpecHealth == Init /\ [][NextHealth]_vars

----------------------------------------------------------------------------
(* Request threads.  Flask serves every request in a thread of its own and  *)
(* faiss_handler takes no lock, so the calls of two requests interleave at  *)
(* the reads and writes of the globals, of the index objects and of the     *)
(* files.  A call is cut where it reads or writes one of them; what lies    *)
(* between two cuts is one step.  The steps run with I/O that does not      *)
(* fail.                                                                    *)

\* the index object a thread's local variable index refers to
Obj(th) == IF th.ref = "cache" THEN loaded_indices[th.user_id] ELSE th.own

\* the thread has the object of the cache entry of user_id in its local variable
Holding(th, user_id) == th.ref = "cache" /\ th.user_id = user_id

\* thread t goes on as local; the cache entry of user_id now holds another object (or
\* none), so a thread that had the old object in its local variable keeps it on its own
Recached(t, user_id, local) ==
    [u \in Threads |->
        IF u = t THEN local
        ELSE IF Holding(threads[u], user_id) /\ user_id \in DOMAIN loaded_indices
        THEN [threads[u] EXCEPT !.ref = "own", !.own = loaded_indices[user_id]]
        ELSE threads[u]]

\* thread t leaves its index object as index and goes on at pc
Mutate(t, index, pc) ==
    IF threads[t].ref = "cache"
    THEN /\ loaded_indices' = Put(loaded_indices, threads[t].user_id, index)
         /\ threads' = [threads EXCEPT ![t].pc = pc]
    ELSE /\ threads' = [threads EXCEPT ![t].pc = pc, ![t].own = index]
         /\ UNCHANGED loaded_indices

\* where a call goes on once load_or_create_index has returned
AfterResolve(op) == IF op = "add" THEN "add_with_ids" ELSE "search"

\* the uuid4 values and the integer ids that are taken: those of every index object
\* and of every ingest under way
UuidsInUse ==
    UNION ({DOMAIN loaded_indices[u].docstore : u \in DOMAIN loaded_indices}
           \cup {DOMAIN threads[t].own.docstore : t \in Threads}
           \cup {Range(threads[t].ids) : t \in Threads})

FaissIdsInUse ==
    UNION ({Range(loaded_indices[u].ids) : u \in DOMAIN loaded_indices}
           \cup {Range(threads[t].own.ids) : t \in Threads}
           \cup {Range(MaskedIds(threads[t].ids)) : t \in Threads})

\* a request thread enters get_embedding_model()
CallGetEmbeddingModel(t) ==
    /\ threads[t].pc = "idle"
    /\ threads' = [threads EXCEPT ![t] = [Idle EXCEPT !.pc = "gm_test", !.op = "model"]]
    /\ UNCHANGED <<embedding_model, embedding_dimension, loaded_indices, disk, model_dim, ret,
                   last_persist>>

\* line 49, if embedding_model is None: the cached instance is returned, or the thread
\* goes on to load the model
TestEmbeddingModel(t) ==
    /\ threads[t].pc = "gm_test"
    /\ threads' = [threads EXCEPT ![t].pc = IF embedding_model THEN "done" ELSE "gm_ctor"]
    /\ UNCHANGED <<embedding_model, embedding_dimension, loaded_indices, disk, model_dim, ret,
                   last_persist>>

\* lines 50-78: the constructor runs, its instance is assigned to embedding_model, the
\* dimension is determined and the test embeddings are made
ConstructEmbeddingModel(t) ==
    /\ threads[t].pc = "gm_ctor"
    /\ \E r \in {get_embedding_model([State EXCEPT !.embedding_model = FALSE], NoFault)} :
          Leave(r.s)
    /\ threads' = [threads EXCEPT ![t].pc = "done", ![t].ctor = TRUE]
    /\ UNCHANGED <<ret, last_persist>>

\* a request thread enters add_documents_to_index(user_id, [document]); requests are
\* served once a model is loaded
CallAddDocuments(t, users, pool) ==
    \E user_id \in users : \E document \in pool :
        /\ threads[t].pc = "idle"
        /\ embedding_model
        /\ threads' = [threads EXCEPT ![t] =
                          [Idle EXCEPT !.pc = "lc_test", !.op = "add", !.user_id = user_id,
                                       !.documents = <<document>>]]
        /\ UNCHANGED <<embedding_model, embedding_dimension, loaded_indices, disk, model_dim,
                       ret, last_persist>>

\* a request thread enters query_index(user_id, query_text, k)
CallQueryIndex(t, users, texts) ==
    \E user_id \in users : \E query_text \in texts :
        /\ threads[t].pc = "idle"
        /\ embedding_model
        /\ threads' = [threads EXCEPT ![t] =
                          [Idle EXCEPT !.pc = "lc_test", !.op = "query", !.user_id = user_id,
                                       !.query_text = query_text, !.k = 1]]
        /\ UNCHANGED <<embedding_model, embedding_dimension, loaded_indices, disk, model_dim,
                       ret, last_persist>>

\* load_or_create_index, lines 110-121: a cached index of the current dimension is
\* returned; one of another dimension is taken out of the cache
TestCache(t) ==
    LET th == threads[t]
        cached == th.user_id \in DOMAIN loaded_indices
    IN  /\ th.pc = "lc_test"
        /\ IF cached /\ ~DimensionMismatch(loaded_indices[th.user_id], embedding_dimension)
           THEN /\ threads' = [threads EXCEPT ![t].pc = AfterResolve(th.op), ![t].ref = "cache"]
                /\ UNCHANGED loaded_indices
           ELSE /\ threads' = Recached(t, th.user_id, [th EXCEPT !.pc = "lc_files"])
                /\ loaded_indices' = Remove(loaded_indices, th.user_id)
        /\ UNCHANGED <<embedding_model, embedding_dimension, disk, model_dim, ret, last_persist>>

\* load_or_create_index, lines 123-211: the files are loaded or a new index is made and
\* saved; either way the thread's index object goes into the cache in place of the
\* one that was there
ResolveFromDisk(t) ==
    LET th == threads[t]
    IN  /\ th.pc = "lc_files"
        /\ \E r \in {LoadFromDisk(State, th.user_id, embedding_dimension, NoFault)} :
              Leave(r.s)
        /\ threads' = Recached(t, th.user_id,
                               [th EXCEPT !.pc = AfterResolve(th.op), !.ref = "cache"])
        /\ UNCHANGED <<ret, last_persist>>

\* add_documents_to_index, lines 240-259: the texts are embedded, the uuid4 values are
\* drawn and the vectors go into the thread's index object
AddWithIds(t) ==
    LET th == threads[t]
        texts == [i \in DOMAIN th.documents |-> th.documents[i].page_content]
    IN  /\ th.pc = "add_with_ids"
        /\ ntotal(Obj(th)) + Len(th.documents) <= MaxVectors
        /\ \E ids \in Draws(Len(th.documents), UuidsInUse) :
              /\ Apart(ids, FaissIdsInUse)
              /\ \E index \in {add_with_ids(Obj(th), embed_documents(texts, model_dim, NoFault).embeddings,
                                           MaskedIds(ids))} :
                    IF th.ref = "cache"
                    THEN /\ loaded_indices' = Put(loaded_indices, th.user_id, index)
                         /\ threads' = [threads EXCEPT ![t].pc = "docstore_add", ![t].ids = ids]
                    ELSE /\ threads' = [threads EXCEPT ![t].pc = "docstore_add", ![t].ids = ids,
                                                       ![t].own = index]
                         /\ UNCHANGED loaded_indices
        /\ UNCHANGED <<embedding_model, embedding_dimension, disk, model_dim, ret, last_persist>>

\* lines 264-265: index.docstore.add(docstore_additions)
DocstoreAdd(t) ==
    LET th == threads[t]
    IN  /\ th.pc = "docstore_add"
        /\ Mutate(t, docstore_add(Obj(th), th.ids, th.documents).index, "map_ids")
        /\ UNCHANGED <<embedding_model, embedding_dimension, disk, model_dim, ret, last_persist>>

\* lines 266-267: the loop that fills index.index_to_docstore_id
MapFaissIds(t) ==
    LET th == threads[t]
    IN  /\ th.pc = "map_ids"
        /\ Mutate(t, map_ids(Obj(th), MaskedIds(th.ids), th.ids), "save")
        /\ UNCHANGED <<embedding_model, embedding_dimension, disk, model_dim, ret, last_persist>>

\* line 269: save_index(user_id) writes the object the cache holds for user_id
SaveIndex(t) ==
    LET th == threads[t]
    IN  /\ th.pc = "save"
        /\ disk' = save_index(loaded_indices, disk, th.user_id, NoFault).disk
        /\ threads' = [threads EXCEPT ![t].pc = "done"]
        /\ UNCHANGED <<embedding_model, embedding_dimension, loaded_indices, model_dim, ret,
                       last_persist>>

\* query_index, lines 293-299: the user's index is searched as the thread finds it,
\* when it holds vectors; an exception of the search is logged
SearchUserIndex(t) ==
    LET th == threads[t]
        index == Obj(th)
        found == similarity_search_with_score(index, th.query_text, th.k, model_dim, "none",
                                              "first")
    IN  /\ th.pc = "search"
        /\ threads' =
              [threads EXCEPT ![t] =
                  [th EXCEPT !.pc = "default", !.ref = "none", !.own = NoIndex,
                             !.searched = IF HasVectors(index) THEN <<index>> ELSE <<>>,
                             !.user_part =
                                 IF ~HasVectors(index)
                                 THEN [failed |-> "no", searched |-> FALSE, results |-> <<>>]
                                 ELSE IF found.raised
                                 THEN [failed |-> "search", searched |-> TRUE, results |-> <<>>]
                                 ELSE [failed |-> "no", searched |-> TRUE,
                                       results |-> found.results]]]
        /\ UNCHANGED <<embedding_model, embedding_dimension, loaded_indices, disk, model_dim,
                       ret, last_persist>>

\* query_index, lines 309-349: the default index is resolved and searched, and the
\* results of the two indices are merged and returned
SearchDefaultIndex(t) ==
    LET th == threads[t]
        env == [shared |-> NoFault, se_shared |-> "none", tie |-> "first"]
    IN  /\ th.pc = "default"
        /\ \E shared \in {QueryDefaultIndex(State, th.user_id, th.query_text, th.k, env)} :
              /\ Leave(shared.s)
              /\ threads' =
                    Recached(t, DEFAULT_INDEX_USER_ID,
                             [th EXCEPT !.pc = "done",
                                        !.results =
                                            MergeResults([s |-> State] @@ th.user_part, shared,
                                                         th.k).results])
        /\ UNCHANGED <<ret, last_persist>>

\* the calls before the requests: either runs while no request is being served
Quiescent == \A t \in Threads : threads[t].pc = "idle"

NextThreads ==
    \/ Quiescent /\ Startup(Nominal)
    \/ Quiescent /\ LoadOrCreateIndexFor(Nominal, Tenants)
    \/ \E t \in Threads : CallGetEmbeddingModel(t)
    \/ \E t \in Threads : TestEmbeddingModel(t)
    \/ \E t \in Threads : ConstructEmbeddingModel(t)
    \/ \E t \in Threads : CallAddDocuments(t, Tenants, ThreadPool)
    \/ \E t \in Threads : CallQueryIndex(t, Tenants, {Apples})
    \/ \E t \in Threads : TestCache(t)
    \/ \E t \in Threads : ResolveFromDisk(t)
    \/ \E t \in Threads : AddWithIds(t)
    \/ \E t \in Threads : DocstoreAdd(t)
    \/ \E t \in Threads : MapFaissIds(t)
    \/ \E t \in Threads : SaveIndex(t)
    \/ \E t \in Threads : SearchUserIndex(t)
    \/ \E t \in Threads : SearchDefaultIndex(t)

\* two request threads over one process, with the model of the smaller dimension
SpecThreads == InitQuery /\ [][NextThreads]_vars

----------------------------------------------------------------------------
(* What the claims speak of *)

\* the tenant's directory and the index its two files hold together
TenantDir(user_id) ==
    IF get_user_index_path(user_id) \in DOMAIN disk
    THEN disk[get_user_index_path(user_id)] ELSE EmptyDir

OnDisk(user_id) == load_local(TenantDir(user_id))

\* the two files as save_local writes them for an index
FilesOf(index) == [faiss |-> WrittenFaiss(index), pkl |-> WrittenPkl(index)]

\* this step is a call of load_or_create_index(user_id)
LoadCall(user_id) == ret'.op = "load" /\ ret'.user_id = user_id

\* the last call was add_documents_to_index with a non-empty list, and it returned
AddReturned == ret.op = "add" /\ ret.n > 0 /\ ~ret.raised

----------------------------------------------------------------------------
(* C1 .. C10 *)

\* C1: every index load_or_create_index returns, from the cache, from disk or newly
\* created, and so every index add_documents_to_index resolves and writes to, has
\* the dimension of the embedding model in use; no index of another dimension is in
\* the cache
C1_ReturnedIndexHasCurrentDimension ==
    /\ (ret.op \in {"load", "add"} /\ ret.how # "none") =>
          /\ ret.index.d = model_dim
          /\ ret.index.d = embedding_dimension
          /\ ret.user_id \in DOMAIN loaded_indices => loaded_indices[ret.user_id].d = model_dim
    /\ \A u \in DOMAIN loaded_indices :
          loaded_indices[u].d = embedding_dimension /\ loaded_indices[u].d = model_dim

\* an ingest wrote into an index that was recreated because the files on disk had
\* another dimension
C1_Witness ==
    AddReturned /\ ret.recreate = "dim" /\ loaded_indices[ret.user_id].d = model_dim
                /\ ntotal(loaded_indices[ret.user_id]) > 0

\* C2: with no index cached (the process has restarted) and the tenant's two files
\* holding an index of a dimension D1 other than the model's D2, load_or_create_index
\* returns an empty index of dimension D2, and the tenant directory then holds the
\* files of that empty D2 index and nothing of D1
C2_DimensionReconciliation ==
    [][\A u \in Tenants :
          (/\ LoadCall(u)
           /\ u \notin DOMAIN loaded_indices
           /\ ~OnDisk(u).raised
           /\ OnDisk(u).index.d # model_dim)
          => (/\ ~ret'.raised
              /\ ret'.index = NewIndex(model_dim)
              /\ u \in DOMAIN loaded_indices'
              /\ loaded_indices'[u] = NewIndex(model_dim)
              /\ get_user_index_path(u) \in DOMAIN disk'
              /\ disk'[get_user_index_path(u)] = FilesOf(NewIndex(model_dim)))]_vars

\* a load has replaced files of another dimension by an empty index of the model's
C2_Witness ==
    /\ ret.op = "load" /\ ret.recreate = "dim" /\ ~ret.raised
    /\ TenantDir(ret.user_id) = FilesOf(NewIndex(model_dim))

\* C3: with the tenant's two files present and one of them not deserializing,
\* load_or_create_index does not raise; it returns a fresh index with zero vectors at
\* the current dimension, which is in the cache and is what the files then hold
C3_CorruptedFileRecovery ==
    [][\A u \in Tenants :
          (/\ LoadCall(u)
           /\ u \notin DOMAIN loaded_indices
           /\ FileExists(disk, get_user_index_path(u), "faiss")
           /\ FileExists(disk, get_user_index_path(u), "pkl")
           /\ OnDisk(u).raised)
          => (/\ ~ret'.raised
              /\ ret'.index = NewIndex(model_dim)
              /\ ntotal(ret'.index) = 0
              /\ u \in DOMAIN loaded_indices'
              /\ loaded_indices'[u] = ret'.index
              /\ get_user_index_path(u) \in DOMAIN disk'
              /\ disk'[get_user_index_path(u)] = FilesOf(ret'.index))]_vars

\* a load has met corrupted files and left a persisted empty index behind
C3_Witness ==
    /\ ret.op = "load" /\ ret.recreate = "corrupt" /\ ~ret.raised
    /\ OnDisk(ret.user_id) = [raised |-> FALSE, index |-> NewIndex(model_dim)]

\* C4: when the process is killed right after a save_index that succeeded and comes
\* back with the same embedding dimension, the first load_or_create_index for that
\* tenant returns, unless the model fails to load, the index that save wrote, vector
\* for vector and mapping for mapping
C4_CrashConsistency ==
    [][\A u \in Tenants :
          (/\ LoadCall(u)
           /\ ret.op = "restart"
           /\ last_persist.user_id = u)
          => (/\ ret'.raised => ~embedding_model'
              /\ ~ret'.raised =>
                    /\ ret'.index = last_persist.index
                    /\ loaded_indices'[u] = last_persist.index
                    /\ ntotal(ret'.index) = ntotal(last_persist.index)
                    /\ ret'.index.index_to_docstore_id = last_persist.index.index_to_docstore_id)]_vars

\* an index with vectors in it came back from disk into an empty cache
C4_Witness ==
    /\ ret.op = "load" /\ ret.how = "disk" /\ ~ret.raised
    /\ ntotal(ret.index) > 0
    /\ loaded_indices[ret.user_id] = ret.index

\* C5: whenever add_documents_to_index returns without raising for a non-empty list,
\* the tenant's files hold the index the cache holds
C5_IngestReturnMeansPersisted ==
    AddReturned =>
        OnDisk(ret.user_id) = [raised |-> FALSE, index |-> loaded_indices[ret.user_id]]

\* C6: after a save_index that succeeded, every id in the vector file has an entry in
\* the persisted index_to_docstore_id, and that entry's record is in the persisted
\* record store
C6_PersistedIdsAreMapped ==
    ret.saved =>
        LET dir == TenantDir(ret.user_id)
        IN  \A i \in DOMAIN dir.faiss.ids :
                /\ dir.faiss.ids[i] \in DOMAIN dir.pkl.index_to_docstore_id
                /\ dir.pkl.index_to_docstore_id[dir.faiss.ids[i]] \in DOMAIN dir.pkl.docstore

\* C7: no two vectors of one tenant index carry the same integer id
C7_FaissIdsUnique ==
    \A u \in DOMAIN loaded_indices :
        \A i, j \in DOMAIN loaded_indices[u].ids :
            i # j => loaded_indices[u].ids[i] # loaded_indices[u].ids[j]

\* C8: an add_documents_to_index that returns for n > 0 documents leaves the index
\* with n more vectors and n more entries in index_to_docstore_id, and with every
\* vector, record and mapping it had before
C8_IngestAppendsExactlyN ==
    AddReturned =>
        LET before == ret.index
            after == loaded_indices[ret.user_id]
        IN  /\ ntotal(after) = ntotal(before) + ret.n
            /\ Cardinality(DOMAIN after.index_to_docstore_id)
                  = Cardinality(DOMAIN before.index_to_docstore_id) + ret.n
            /\ SubSeq(after.ids, 1, ntotal(before)) = before.ids
            /\ SubSeq(after.vecs, 1, ntotal(before)) = before.vecs
            /\ \A k \in DOMAIN before.docstore :
                  k \in DOMAIN after.docstore /\ after.docstore[k] = before.docstore[k]
            /\ \A k \in DOMAIN before.index_to_docstore_id :
                  after.index_to_docstore_id[k] = before.index_to_docstore_id[k]

\* C9: an add_documents_to_index whose save did not go through does not return
\* normally: a normal return means save_index wrote the index
C9_PersistFailurePropagates ==
    (ret.op = "add" /\ ret.n > 0 /\ ~ret.saved) => ret.raised

\* C10: when add_documents_to_index raises, the cached index is the one it resolved,
\* unchanged; and whenever the call leaves the cached index changed, save_index has
\* written it
C10_NoMutationWithoutPersist ==
    (ret.op = "add" /\ ret.n > 0 /\ ret.user_id \in DOMAIN loaded_indices) =>
        /\ ret.raised => loaded_indices[ret.user_id] = ret.index
        /\ loaded_indices[ret.user_id] # ret.index => ret.saved

----------------------------------------------------------------------------
(* C11 .. C20 *)

\* C11: add_documents_to_index(tenant, []) never raises and changes nothing: the model
\* and the dimension stay as they are, the tenant is not resolved, the cache gains no
\* entry and loses none, no index in it changes, and no file is created or rewritten
C11_EmptyIngestIsNoOp ==
    [][(ret'.op = "add" /\ ret'.n = 0)
          => (/\ ~ret'.raised
              /\ ret'.how = "none"
              /\ ~ret'.saved
              /\ UNCHANGED <<embedding_model, embedding_dimension, loaded_indices, disk>>)]_vars

\* an empty ingest for a tenant that has neither a cache entry nor a directory
C11_Witness ==
    /\ ret.op = "add" /\ ret.n = 0 /\ ~ret.raised
    /\ ret.user_id \notin DOMAIN loaded_indices
    /\ get_user_index_path(ret.user_id) \notin DOMAIN disk

\* the deduplication keys among some results
KeysOf(items) == {content_key(items[i].doc) : i \in DOMAIN items}

\* the lowest score some results give a key
Lowest(items, key) ==
    LET scores == {items[i].score : i \in {j \in DOMAIN items : content_key(items[j].doc) = key}}
    IN  CHOOSE x \in scores : \A y \in scores : x <= y

\* how close a record is to the query text: the inner product of the two embeddings
Closeness(doc, query_text) ==
    InnerProduct(Embed(doc.page_content, model_dim), Embed(query_text, model_dim))

\* the last call was query_index and it returned a list
QueryReturned == ret.op = "query" /\ ~ret.raised

\* the text of the one document the last add_documents_to_index call ingested
Ingested ==
    LET index == loaded_indices[ret.user_id]
    IN  index.docstore[index.index_to_docstore_id[index.ids[ntotal(index)]]].page_content

\* C12: right after an add_documents_to_index(tenant, [document with text T]) that
\* returned, a query_index(tenant, T, 1) in which neither index fails returns one
\* result, and its page_content is T
C12_IngestQueryRoundTrip ==
    [][(/\ ret.op = "add" /\ ret.n = 1 /\ ~ret.raised
        /\ ret'.op = "query" /\ ~ret'.raised
        /\ ret'.user_id = ret.user_id
        /\ ret'.k = 1
        /\ ret'.query_text = Ingested
        /\ "resolve" \notin {ret'.user_part.failed, ret'.default_part.failed}
        /\ "search" \notin {ret'.user_part.failed, ret'.default_part.failed})
       => (/\ Len(ret'.results) = 1
           /\ ret'.results[1].doc.page_content = ret'.query_text)]_vars

\* C13 as stated: a chunk that both the user's index and the default index gave (same
\* documentName, same leading characters) is in the returned list exactly once, with
\* the lower of its scores
C13_ReturnedOnce ==
    (QueryReturned /\ ret.user_id # DEFAULT_INDEX_USER_ID) =>
        \A key \in KeysOf(ret.user_part.results) \cap KeysOf(ret.default_part.results) :
            LET at == {i \in DOMAIN ret.results : content_key(ret.results[i].doc) = key}
            IN  /\ Cardinality(at) = 1
                /\ \A i \in at : ret.results[i].score = Lowest(ret.collected, key)

\* C13: a chunk that both the user's index and the default index gave (same
\* documentName, same leading characters) is in the returned list at most once and
\* with the lower of its scores, and is left out only when k results with scores no
\* higher were returned
C13_MergeKeepsLowerScore ==
    (QueryReturned /\ ret.user_id # DEFAULT_INDEX_USER_ID) =>
        \A key \in KeysOf(ret.user_part.results) \cap KeysOf(ret.default_part.results) :
            LET at == {i \in DOMAIN ret.results : content_key(ret.results[i].doc) = key}
            IN  /\ Cardinality(at) <= 1
                /\ \A i \in at : ret.results[i].score = Lowest(ret.collected, key)
                /\ at = {} =>
                      /\ Len(ret.results) = ret.k
                      /\ \A i \in DOMAIN ret.results :
                            ret.results[i].score <= Lowest(ret.collected, key)

\* the two indices gave one chunk with different scores, the default index the lower
\* one, and the chunk was returned
C13_Witness ==
    /\ QueryReturned
    /\ \E i \in DOMAIN ret.user_part.results : \E j \in DOMAIN ret.default_part.results :
          /\ content_key(ret.user_part.results[i].doc)
                = content_key(ret.default_part.results[j].doc)
          /\ ret.default_part.results[j].score < ret.user_part.results[i].score
          /\ \E r \in DOMAIN ret.results :
                /\ content_key(ret.results[r].doc) = content_key(ret.default_part.results[j].doc)
                /\ ret.results[r].score = ret.default_part.results[j].score

\* C14: query_index(tenant, text, k) with k >= 0 returns at most k results
C14_TopKBound ==
    QueryReturned => Len(ret.results) <= ret.k

\* the two indices gave more distinct chunks than k, and k of them were returned
C14_Witness ==
    /\ QueryReturned
    /\ ret.k > 0
    /\ Cardinality(KeysOf(ret.collected)) > ret.k
    /\ Len(ret.results) = ret.k

\* C15: the returned list is in non-decreasing score order, holds no deduplication key
\* twice, gives every chunk the lowest score it was collected with, has k entries or
\* all the collected chunks when those are fewer, and leaves out no chunk with a score
\* below one it holds
C15_SortedDeduplicatedFirstK ==
    QueryReturned =>
        /\ \A i, j \in DOMAIN ret.results : i < j => ret.results[i].score <= ret.results[j].score
        /\ \A i, j \in DOMAIN ret.results :
              i # j => content_key(ret.results[i].doc) # content_key(ret.results[j].doc)
        /\ \A i \in DOMAIN ret.results :
              /\ content_key(ret.results[i].doc) \in KeysOf(ret.collected)
              /\ ret.results[i].score = Lowest(ret.collected, content_key(ret.results[i].doc))
        /\ Len(ret.results) =
              (IF Cardinality(KeysOf(ret.collected)) < ret.k
               THEN Cardinality(KeysOf(ret.collected)) ELSE ret.k)
        /\ \A key \in KeysOf(ret.collected) \ KeysOf(ret.results) :
              \A i \in DOMAIN ret.results : ret.results[i].score <= Lowest(ret.collected, key)

\* two chunks collected in descending score order came back in ascending order
C15_Witness ==
    /\ QueryReturned
    /\ Len(ret.results) = 2
    /\ ret.results[1].score < ret.results[2].score
    /\ \E i, j \in DOMAIN ret.collected :
          /\ i < j
          /\ ret.collected[i].doc = ret.results[2].doc
          /\ ret.collected[j].doc = ret.results[1].doc

\* C16: the first result query_index returns is the closest match to the query among
\* all the candidates it collected from the two indices
C16_ClosestMatchFirst ==
    (QueryReturned /\ ret.results # <<>>) =>
        \A i \in DOMAIN ret.collected :
            Closeness(ret.results[1].doc, ret.query_text)
               >= Closeness(ret.collected[i].doc, ret.query_text)

\* C17: in a query_index call that gets past the model load, a block that fails to
\* resolve or to search its index contributes nothing, and the other block's results
\* are still what is collected, deduplicated, ranked and returned
C17_FailedIndexContributesNothing ==
    (QueryReturned /\ ret.user_id # DEFAULT_INDEX_USER_ID) =>
        LET own == ret.user_part
            shared == ret.default_part
            Failed(part) == part.failed \in {"resolve", "search"}
            Alone(part, other) ==
                (Failed(other) /\ part.failed = "no") =>
                    /\ other.results = <<>>
                    /\ ret.collected = part.results
                    /\ KeysOf(ret.results) \subseteq KeysOf(part.results)
                    /\ (part.results # <<>> /\ ret.k > 0) => ret.results # <<>>
                    /\ Len(ret.results) =
                          (IF Cardinality(KeysOf(part.results)) < ret.k
                           THEN Cardinality(KeysOf(part.results)) ELSE ret.k)
        IN  /\ Alone(own, shared)
            /\ Alone(shared, own)
            /\ (Failed(own) /\ Failed(shared)) => ret.results = <<>>

\* the user's index failed and the results of the default index were returned
C17_Witness ==
    /\ QueryReturned
    /\ ret.user_part.failed \in {"resolve", "search"}
    /\ ret.default_part.failed = "no"
    /\ ret.default_part.results # <<>>
    /\ ret.results # <<>>

\* C18 as stated: query_index never propagates an exception
C18_QueryNeverRaises ==
    ret.op = "query" => ~ret.raised

\* C18: query_index propagates an exception only when the embedding model was not
\* loaded before the call and fails to load in it, and then it leaves the cache and
\* the files as they were; in every other case it returns a list, the empty list when
\* both indices fail
C18_QueryRaisesOnlyWithoutModel ==
    [][ret'.op = "query" =>
          IF ret'.raised
          THEN /\ ~embedding_model /\ ~embedding_model'
               /\ UNCHANGED <<loaded_indices, disk>>
          ELSE /\ embedding_model'
               /\ Len(ret'.results) <= ret'.k
               /\ ({ret'.user_part.failed, ret'.default_part.failed} \subseteq {"resolve", "search"}
                     => ret'.results = <<>>)]_vars

\* both indices failed in a query and the empty list came back
C18_Witness ==
    /\ QueryReturned
    /\ ret.user_part.failed \in {"resolve", "search"}
    /\ ret.default_part.failed \in {"resolve", "search"}
    /\ ret.results = <<>>

\* C19: load_or_create_index does not return an index it created unless the directory
\* was made and the empty index was written: where either fails, the call raises
C19_CreateFailureRaises ==
    (ret.op = "load" /\ ret.how = "new" /\ ~ret.saved) => ret.raised

\* C20: after a load_or_create_index call that raised, in its own right or inside
\* add_documents_to_index, the tenant has no entry in loaded_indices
C20_NoCacheEntryAfterRaise ==
    (\/ ret.op = "load" /\ ret.raised
     \/ ret.op = "add" /\ ret.raised /\ ret.how = "none") =>
        ret.user_id \notin DOMAIN loaded_indices

\* a resolve raised with the model loaded: the directory could not be made
C20_Witness ==
    /\ ret.op = "load" /\ ret.raised
    /\ embedding_model
    /\ ret.user_id \notin DOMAIN loaded_indices

----------------------------------------------------------------------------
(* C21 .. C30 *)

\* C21: when two add_documents_to_index calls of two threads for one tenant have both
\* returned, each call's index object is the cached one, the cached index holds every
\* document of both calls under its uuid with its integer id mapped to it, and the
\* files hold the cached index
C21_ConcurrentIngestsKeepAll ==
    \A a, b \in Threads :
        (/\ a # b
         /\ threads[a].pc = "done" /\ threads[a].op = "add"
         /\ threads[b].pc = "done" /\ threads[b].op = "add"
         /\ threads[a].user_id = threads[b].user_id) =>
            LET user_id == threads[a].user_id
                index == loaded_indices[user_id]
            IN  /\ user_id \in DOMAIN loaded_indices
                /\ \A t \in {a, b} :
                      /\ threads[t].ref = "cache"
                      /\ \A i \in DOMAIN threads[t].ids :
                            LET id == threads[t].ids[i]
                            IN  /\ id \in DOMAIN index.docstore
                                /\ index.docstore[id] = threads[t].documents[i]
                                /\ FaissId(id) \in Range(index.ids)
                                /\ FaissId(id) \in DOMAIN index.index_to_docstore_id
                                /\ index.index_to_docstore_id[FaissId(id)] = id
                /\ ~OnDisk(user_id).raised
                /\ OnDisk(user_id).index = index

\* C22: every index a query_index call of a thread searched had, when it was searched,
\* an index_to_docstore_id entry and a docstore record for each of its integer ids
C22_QuerySeesWholeMapping ==
    \A t \in Threads : \A n \in DOMAIN threads[t].searched :
        LET index == threads[t].searched[n]
        IN  \A i \in DOMAIN index.ids :
                /\ index.ids[i] \in DOMAIN index.index_to_docstore_id
                /\ index.index_to_docstore_id[index.ids[i]] \in DOMAIN index.docstore

\* C23: over the get_embedding_model calls of all threads the model constructor runs
\* at most once
C23_ModelConstructedOnce ==
    Cardinality({t \in Threads : threads[t].ctor}) <= 1

\* C27: a load_or_create_index call for a tenant that is cached with the dimension of
\* the model returns the cached index without raising and leaves the cache, the files,
\* the model and the dimension as they were
C27_CachedLoadIsIdempotent ==
    [][(/\ ret'.op = "load"
        /\ ret'.user_id \in DOMAIN loaded_indices
        /\ ~DimensionMismatch(loaded_indices[ret'.user_id], embedding_dimension))
       => (/\ ~ret'.raised
           /\ ret'.how = "cache"
           /\ ret'.index = loaded_indices[ret'.user_id]
           /\ ~ret'.saved
           /\ UNCHANGED <<loaded_indices, disk, embedding_model, embedding_dimension>>)]_vars

\* a cached index with a vector was returned while the files do not load: they were
\* not read
C27_Witness ==
    /\ ret.op = "load" /\ ret.how = "cache" /\ ~ret.raised
    /\ ntotal(ret.index) > 0
    /\ OnDisk(ret.user_id).raised

\* C28: a load_or_create_index call for a tenant that is not cached and whose two files
\* load to an index of the model's dimension either raises because the model does not
\* load, or caches and returns that index, with or without vectors, and leaves the
\* files as they were
C28_LoadKeepsFiles ==
    [][(/\ ret'.op = "load"
        /\ ret'.user_id \notin DOMAIN loaded_indices
        /\ ~OnDisk(ret'.user_id).raised
        /\ OnDisk(ret'.user_id).index.d = model_dim
        /\ ~ret'.raised)
       => (/\ ret'.how = "disk"
           /\ ret'.recreate = "no"
           /\ ret'.index = OnDisk(ret'.user_id).index
           /\ loaded_indices' = Put(loaded_indices, ret'.user_id, OnDisk(ret'.user_id).index)
           /\ ~ret'.saved
           /\ disk' = disk)]_vars

\* an index without vectors was loaded from the files, cached and returned
C28_Witness ==
    /\ ret.op = "load" /\ ret.how = "disk" /\ ~ret.raised
    /\ ntotal(ret.index) = 0
    /\ ret.user_id \in DOMAIN loaded_indices
    /\ OnDisk(ret.user_id).index = ret.index

\* the lengths embed_query("dimension_check") may come back with; 0 stands for an
\* exception or an empty vector
ProbeLengths == {0, 1} \cup Dims

\* C29: the cached dimension is unset or positive; while it is set, every
\* get_embedding_dimension call returns it whatever the probe would give, and no call
\* of the process changes it; while it is unset, a probe of length 0 makes the call
\* raise and leaves it unset, and a call that needed the dimension and left it unset
\* raised
C29_DimensionCachedOnce ==
    [][/\ embedding_dimension' >= 0
       /\ \A probe \in ProbeLengths :
             LET r == get_embedding_dimension(embedding_dimension, probe)
             IN  IF embedding_dimension # 0
                 THEN ~r.raised /\ r.dimension = embedding_dimension
                 ELSE IF probe = 0
                 THEN r.raised /\ r.dimension = 0
                 ELSE ~r.raised /\ r.dimension = probe
       /\ (ret'.op # "restart" /\ embedding_dimension # 0)
             => embedding_dimension' = embedding_dimension
       /\ (ret'.op # "restart" /\ embedding_dimension' # embedding_dimension)
             => embedding_dimension' = model_dim
       /\ (ret'.op \in {"model", "load"} /\ embedding_dimension' = 0) => ret'.raised]_vars

\* the dimension was determined and kept although the model then failed its test
\* embeddings and was dropped: the next call finds the dimension set
C29_Witness ==
    /\ ret.op = "model" /\ ret.raised
    /\ embedding_dimension = model_dim
    /\ embedding_dimension > 0
    /\ ~embedding_model

\* C30: an add_documents_to_index call that follows a call for the same tenant with
\* the same documents (the pool holds one document, so lists of one length are the
\* same list) leaves the vector count and the set of stored records as the first call
\* left them
C30_ReingestIsIdempotent ==
    [][(/\ ret.op = "add" /\ ~ret.raised /\ ret.n > 0
        /\ ret'.op = "add" /\ ~ret'.raised
        /\ ret'.user_id = ret.user_id
        /\ ret'.n = ret.n
        /\ ret.user_id \in DOMAIN loaded_indices)
       => (/\ ret'.user_id \in DOMAIN loaded_indices'
           /\ ntotal(loaded_indices'[ret'.user_id]) = ntotal(loaded_indices[ret.user_id])
           /\ Range(loaded_indices'[ret'.user_id].docstore)
                 = Range(loaded_indices[ret.user_id].docstore))]_vars

\* C26: a query_index call that gets past the model load runs the block of the user's
\* index; it runs the block of the default index exactly when the user id is not the
\* default's, so that the default index is searched once at most; what is collected
\* is the results of the first block followed by those of the second; a block that
\* searched has searched an index with vectors, and its results are records of that
\* index; an index without vectors gives no results and no search failure
C26_TwoTierRetrieval ==
    QueryReturned =>
        LET Sound(part, user_id) ==
                /\ part.searched =>
                      /\ user_id \in DOMAIN loaded_indices
                      /\ ntotal(loaded_indices[user_id]) > 0
                /\ (part.failed = "no" /\ ntotal(loaded_indices[user_id]) > 0) => part.searched
                /\ ~part.searched => (part.results = <<>> /\ part.failed # "search")
                /\ \A i \in DOMAIN part.results :
                      part.results[i].doc \in Range(loaded_indices[user_id].docstore)
        IN  /\ ret.user_part.failed # "skipped"
            /\ (ret.default_part.failed = "skipped") <=> (ret.user_id = DEFAULT_INDEX_USER_ID)
            /\ Sound(ret.user_part, ret.user_id)
            /\ Sound(ret.default_part, DEFAULT_INDEX_USER_ID)
            /\ ret.collected = ret.user_part.results \o ret.default_part.results

\* a user's query searched the user's index and the default index, and found records
\* in both
C26_Witness ==
    /\ QueryReturned
    /\ ret.user_id # DEFAULT_INDEX_USER_ID
    /\ ret.user_part.searched /\ ret.user_part.results # <<>>
    /\ ret.default_part.searched /\ ret.default_part.results # <<>>

\* C24: a load_or_create_index or add_documents_to_index call that deletes the
\* tenant's files because they do not load or are of another dimension finds the
\* tenant not cached, does not raise whether the deletion succeeds or fails, and
\* leaves in the cache the index it created, of the model's dimension and holding the
\* documents of this call only, with the files written from it; a forced rebuild that
\* removed files does not raise, leaves no cache entry when it stopped at a removal
\* that failed, and else leaves in the cache the index it built from its documents
C24_DeletedFilesLeaveCache ==
    [][LET user_id == ret'.user_id
           index_path == get_user_index_path(user_id)
           Rebuilt == /\ user_id \in DOMAIN loaded_indices'
                      /\ loaded_indices'[user_id].d = model_dim
                      /\ ntotal(loaded_indices'[user_id]) = ret'.n
                      /\ Range(loaded_indices'[user_id].docstore) \subseteq DocPool
                      /\ ret'.how = "new"
                      /\ index_path \in DOMAIN disk'
                      /\ disk'[index_path] = FilesOf(loaded_indices'[user_id])
       IN  /\ (ret'.op \in {"load", "add"} /\ ret'.recreate \in {"corrupt", "dim"}) =>
                 /\ user_id \notin DOMAIN loaded_indices
                 /\ ~ret'.raised
                 /\ Rebuilt
           /\ (ret'.op = "rebuild" /\ ret'.recreate # "no") =>
                 /\ ~ret'.raised
                 /\ ret'.recreate = "some" =>
                       (user_id \notin DOMAIN loaded_indices' /\ ret'.how = "none")
                 /\ ret'.recreate = "all" => Rebuilt]_vars

\* files of another dimension were deleted and the cache holds the new empty index
C24_Witness ==
    /\ ret.op = "load" /\ ret.recreate = "dim" /\ ~ret.raised
    /\ ret.user_id \in DOMAIN loaded_indices
    /\ loaded_indices[ret.user_id] = NewIndex(model_dim)
    /\ OnDisk(ret.user_id).index = NewIndex(model_dim)

\* C25: a load_or_create_index call for a tenant that is not cached and has exactly
\* one of its two files does not raise and loads nothing: it returns and caches a new
\* empty index of the model's dimension, and both files are then those of that index
C25_SingleFileRecreated ==
    [][LET user_id == ret'.user_id
           index_path == get_user_index_path(user_id)
       IN  (/\ ret'.op = "load"
            /\ user_id \notin DOMAIN loaded_indices
            /\ FileExists(disk, index_path, "faiss") # FileExists(disk, index_path, "pkl"))
           => (/\ ~ret'.raised
               /\ ret'.how = "new"
               /\ ret'.recreate = "single"
               /\ ret'.index = NewIndex(model_dim)
               /\ user_id \in DOMAIN loaded_indices'
               /\ loaded_indices'[user_id] = NewIndex(model_dim)
               /\ disk'[index_path] = FilesOf(NewIndex(model_dim)))]_vars

\* one file was there, and the call left the two files of a new empty index
C25_Witness ==
    /\ ret.op = "load" /\ ret.recreate = "single" /\ ~ret.raised
    /\ ret.index = NewIndex(model_dim)
    /\ TenantDir(ret.user_id) = FilesOf(NewIndex(model_dim))

----------------------------------------------------------------------------
(* C31 .. C38 *)

\* C31: a health check answers "ok" with 200 exactly when the embedding model was
\* loaded before it and the default index is in the cache when it ends, found there
\* or resolved by it; it then reports the model's dimension and the vector count and
\* dimension of the cached default index; otherwise it answers "error" with 503, and
\* without a loaded model it changes nothing
C31_HealthReportsReadiness ==
    [][ret'.op = "health" =>
          LET ready == /\ embedding_model
                       /\ DEFAULT_INDEX_USER_ID \in DOMAIN loaded_indices'
          IN  /\ (ret'.status = "ok") <=> ready
              /\ DEFAULT_INDEX_USER_ID \in DOMAIN loaded_indices
                    => loaded_indices' = loaded_indices /\ disk' = disk
              /\ ready =>
                    /\ ret'.http_status_code = 200
                    /\ ret'.embedding_dimension = model_dim
                    /\ ret'.default_index_loaded
                    /\ ret'.default_index_vectors
                          = ntotal(loaded_indices'[DEFAULT_INDEX_USER_ID])
                    /\ ret'.default_index_dim = model_dim
              /\ ~ready =>
                    /\ ret'.status = "error"
                    /\ ret'.http_status_code = 503
                    /\ ~ret'.default_index_loaded
              /\ ~embedding_model =>
                    UNCHANGED <<embedding_model, embedding_dimension, loaded_indices, disk>>]_vars

\* a health check answered "ok" and reported the vectors of the default index
C31_Witness ==
    /\ ret.op = "health"
    /\ ret.status = "ok" /\ ret.http_status_code = 200
    /\ ret.default_index_vectors > 0
    /\ ret.embedding_dimension = model_dim

\* C38: in every state, save_index for a user id that is not in the cache, whatever
\* os.makedirs and save_local would do, returns without raising and leaves the files
\* as they are, the cache not being written by it at all; for a cached user id it
\* never raises, and where it writes, the files are those of the cached index; the
\* save that ends a thread's add_documents_to_index call leaves the files of the
\* index the cache holds then, also where the thread's own index object is another
C38_SaveWritesCachedObject ==
    [][/\ \A user_id \in QueryUsers : \A sf \in Faulty.sf : \A mk \in BOOLEAN :
             LET r == save_index(loaded_indices, disk, user_id,
                                 [NoFault EXCEPT !.sf = sf, !.mk = mk])
             IN  /\ ~r.raised
                 /\ user_id \notin DOMAIN loaded_indices => (~r.saved /\ r.disk = disk)
                 /\ r.saved =>
                       r.disk[get_user_index_path(user_id)] = FilesOf(loaded_indices[user_id])
       /\ \A t \in Threads :
             (threads[t].pc = "save" /\ threads'[t].pc = "done") =>
                 /\ loaded_indices' = loaded_indices
                 /\ threads[t].user_id \in DOMAIN loaded_indices
                 /\ disk'[get_user_index_path(threads[t].user_id)]
                       = FilesOf(loaded_indices[threads[t].user_id])]_vars

\* a thread's add has saved: the files hold the cached index, which is not the index
\* object the thread added its documents to; another user id is not cached
C38_Witness ==
    \E t \in Threads :
        /\ threads[t].op = "add" /\ threads[t].pc = "done"
        /\ threads[t].ref = "own"
        /\ threads[t].user_id \in DOMAIN loaded_indices
        /\ threads[t].own # loaded_indices[threads[t].user_id]
        /\ OnDisk(threads[t].user_id).index = loaded_indices[threads[t].user_id]
        /\ \E user_id \in QueryUsers : user_id \notin DOMAIN loaded_indices

\* C33: two candidates a query_index call collected have the same deduplication key
\* only if they have the same document name and the same leading characters of
\* content, so that no candidate is dropped for one of another document
C33_KeyTellsDocumentsApart ==
    QueryReturned =>
        \A i, j \in DOMAIN ret.collected :
            content_key(ret.collected[i].doc) = content_key(ret.collected[j].doc) =>
                /\ ret.collected[i].doc.documentName = ret.collected[j].doc.documentName
                /\ Leading(ret.collected[i].doc.page_content)
                      = Leading(ret.collected[j].doc.page_content)

\* C32: a query for a tenant returns only chunks that tenant or the default tenant
\* ingested, and an ingest of one tenant leaves on disk every chunk of every other
\* tenant that was on disk before it
C32_TenantIsolation ==
    [][/\ (ret'.op = "query" /\ ~ret'.raised) =>
             \A i \in DOMAIN ret'.results :
                 ret'.results[i].doc
                    \in TenantDocs(ret'.user_id) \cup TenantDocs(DEFAULT_INDEX_USER_ID)
       /\ (ret'.op = "add" /\ ~ret'.raised) =>
             \A other \in (AliasUsers \cup {DEFAULT_INDEX_USER_ID}) \ {ret'.user_id} :
                 \A doc \in TenantDocs(other) :
                    (~OnDisk(other).raised /\ doc \in Range(OnDisk(other).index.docstore))
                       => (/\ ~OnDisk(other)'.raised
                           /\ doc \in Range(OnDisk(other)'.index.docstore))]_vars

\* C34: a query_index call leaves every tenant other than its own and the default
\* tenant as it was, in the cache and on disk; an index of those two that is cached
\* stays the same in the cache and on disk; one that is not cached is left alone, or
\* loaded from its files as they are, or, where the files are missing, unreadable or
\* of another dimension, replaced by a new empty index that is cached and written, or
\* deleted when the directory cannot be made again
C34_QueryOnlyResolves ==
    [][ret'.op = "query" =>
          \A user_id \in QueryUsers :
              LET index_path == get_user_index_path(user_id)
                  cached == user_id \in DOMAIN loaded_indices
                  SameEntry == /\ cached <=> user_id \in DOMAIN loaded_indices'
                               /\ cached => loaded_indices'[user_id] = loaded_indices[user_id]
                  SameFiles == /\ index_path \in DOMAIN disk <=> index_path \in DOMAIN disk'
                               /\ index_path \in DOMAIN disk => disk'[index_path] = disk[index_path]
                  usable == ~OnDisk(user_id).raised /\ OnDisk(user_id).index.d = model_dim
                  Loaded == /\ ~cached /\ usable
                            /\ user_id \in DOMAIN loaded_indices'
                            /\ loaded_indices'[user_id] = OnDisk(user_id).index
                            /\ SameFiles
                  Created == /\ ~cached /\ ~usable
                             /\ user_id \in DOMAIN loaded_indices'
                             /\ loaded_indices'[user_id] = NewIndex(model_dim)
                             /\ index_path \in DOMAIN disk'
                             /\ disk'[index_path] = FilesOf(NewIndex(model_dim))
                  Dropped == /\ ~cached /\ ~usable
                             /\ user_id \notin DOMAIN loaded_indices'
                             /\ index_path \notin DOMAIN disk'
              IN  /\ user_id \notin {ret'.user_id, DEFAULT_INDEX_USER_ID}
                        => (SameEntry /\ SameFiles)
                  /\ cached => (SameEntry /\ SameFiles)
                  /\ (SameEntry /\ SameFiles) \/ Loaded \/ Created \/ Dropped]_vars

\* a query gave results from a cached index whose file had been corrupted, and left
\* the file as it was
C34_Witness ==
    /\ QueryReturned
    /\ ret.results # <<>>
    /\ ret.user_id \in DOMAIN loaded_indices
    /\ OnDisk(ret.user_id).raised
    /\ get_user_index_path(ret.user_id) \in DOMAIN disk

\* the tenant's two files load as an index of the model's dimension, and what is
\* cached for the tenant has that dimension
Settled(user_id) ==
    /\ FileExists(disk, get_user_index_path(user_id), "faiss")
    /\ FileExists(disk, get_user_index_path(user_id), "pkl")
    /\ ~OnDisk(user_id).raised
    /\ OnDisk(user_id).index.d = model_dim
    /\ user_id \in DOMAIN loaded_indices => loaded_indices[user_id].d = model_dim

\* the last call was a load_or_create_index that made the tenant's index anew because
\* its files did not load or had another dimension
Healed == ret.op = "load" /\ ret.recreate \in {"corrupt", "dim"} /\ ~ret.raised

\* the module's state in a process started anew on the same files with the same model
Restarted(s) ==
    [s EXCEPT !.embedding_model = FALSE, !.embedding_dimension = 0,
              !.loaded_indices = EmptyDict]

\* C35: a load_or_create_index call that recreated a tenant's index and wrote it
\* leaves files that load at the model's dimension, and the call made anew in a
\* restarted process reads them back without deleting or writing; as long as the
\* files are such, no load_or_create_index call for the tenant deletes or writes
\* anything, and one that returns returns an index of that dimension from the cache or
\* from the files; and the files stay such over every call and over a restart with
\* the same model, so the first load after the restart is one of those calls
C35_SelfHealingStable ==
    [][\A u \in Tenants :
          /\ (LoadCall(u) /\ Healed' /\ ret'.saved)
                => /\ Settled(u)'
                   /\ \E r \in {load_or_create_index(Restarted(State'), u, NoFault)} :
                         /\ ~r.raised /\ r.how = "disk" /\ r.recreate = "no"
                         /\ r.s.disk = disk'
          /\ (Settled(u) /\ LoadCall(u))
                => /\ ret'.recreate = "no"
                   /\ disk' = disk
                   /\ ret'.raised => ~embedding_model'
                   /\ ~ret'.raised => /\ ret'.how \in {"cache", "disk"}
                                      /\ ret'.index.d = model_dim
          /\ (Settled(u) /\ ret'.op # "corrupt" /\ model_dim' = model_dim)
                => Settled(u)']_vars

\* a load has just replaced files of another dimension; the same call made again is
\* answered from the cache, and made in a process started anew it reads the new files
\* back, and neither touches the files
C35_Witness ==
    /\ Healed /\ ret.recreate = "dim" /\ ret.saved
    /\ Settled(ret.user_id)
    /\ \E r \in {load_or_create_index(State, ret.user_id, NoFault)} :
          ~r.raised /\ r.how = "cache" /\ r.recreate = "no" /\ r.s.disk = disk
    /\ \E r \in {load_or_create_index(Restarted(State), ret.user_id, NoFault)} :
          ~r.raised /\ r.how = "disk" /\ r.recreate = "no" /\ r.s.disk = disk

\* C36: after a get_embedding_model call that raised, embedding_model is unset, and
\* the call made again with nothing failing loads the model and determines the
\* dimension; after a load_or_create_index call that raised, the tenant has no cache
\* entry, and the call made again with nothing failing does the work again (it is
\* not answered from the cache), does not raise, and caches and returns an index that
\* the files hold; where it was the creation that failed, that index is a new empty
\* one the call has written
C36_FailuresNotSticky ==
    /\ (ret.op = "model" /\ ret.raised)
          => /\ ~embedding_model
             /\ \E r \in {get_embedding_model(State, NoFault)} :
                   /\ ~r.raised
                   /\ r.s.embedding_model
                   /\ r.s.embedding_dimension = model_dim
    /\ (ret.op = "load" /\ ret.raised)
          => /\ ret.user_id \notin DOMAIN loaded_indices
             /\ \E r \in {load_or_create_index(State, ret.user_id, NoFault)} :
                   /\ ~r.raised
                   /\ r.how \in {"disk", "new"}
                   /\ r.s.embedding_model
                   /\ ret.user_id \in DOMAIN r.s.loaded_indices
                   /\ r.s.loaded_indices[ret.user_id] = r.index
                   /\ r.index.d = model_dim
                   /\ get_user_index_path(ret.user_id) \in DOMAIN r.s.disk
                   /\ load_local(r.s.disk[get_user_index_path(ret.user_id)])
                         = [raised |-> FALSE, index |-> r.index]
                   /\ embedding_model
                         => /\ r.how = "new" /\ r.saved
                            /\ r.index = NewIndex(model_dim)

\* a load_or_create_index call raised with the model loaded, because the directory
\* could not be made; the tenant has neither cache entry nor directory, and the call
\* made again creates and writes the empty index
C36_Witness ==
    /\ ret.op = "load" /\ ret.raised /\ embedding_model
    /\ get_user_index_path(ret.user_id) \notin DOMAIN disk
    /\ \E r \in {load_or_create_index(State, ret.user_id, NoFault)} :
          ~r.raised /\ r.how = "new" /\ r.saved

\* the chunks embedded as add_documents_to_index embeds them, in their order
EmbeddingsOf(all_documents, d) ==
    [i \in DOMAIN all_documents |-> Embed(all_documents[i].page_content, d)]

\* C37: when create_default_index(force_rebuild=True) has returned True, the files of
\* the default index load, and the index they hold has one vector for every chunk of
\* this run, in order, and one record for every chunk and no other (none of either
\* when there were no chunks); when create_default_index(force_rebuild=False) is
\* called with a file of the index there, the files afterwards hold what they held or
\* an empty index or nothing, and it returns True exactly when load_or_create_index
\* returned, the index then being cached
C37_BuildPersistsCurrentAssets ==
    [][ret'.op = "build" =>
          LET user_id == DEFAULT_INDEX_USER_ID
              index_path == get_user_index_path(user_id)
              before == TenantDir(user_id)
              after == TenantDir(user_id)'
              persisted == load_local(after)
              all_documents == ret'.all_documents
          IN  /\ (ret'.force_rebuild /\ ret'.ok)
                    => /\ ~persisted.raised
                       /\ ntotal(persisted.index) = Len(all_documents)
                       /\ persisted.index.vecs = EmbeddingsOf(all_documents, model_dim)
                       /\ Cardinality(DOMAIN persisted.index.docstore) = Len(all_documents)
                       /\ Range(persisted.index.docstore) = Range(all_documents)
              /\ (/\ ~ret'.force_rebuild
                  /\ FileExists(disk, index_path, "faiss") \/ FileExists(disk, index_path, "pkl"))
                    => /\ after \in {before, FilesOf(NewIndex(model_dim)), EmptyDir}
                       /\ ret'.ok <=> user_id \in DOMAIN loaded_indices'
                       /\ ret'.ok => /\ load_local(after).index = loaded_indices'[user_id]
                                     /\ ~load_local(after).raised]_vars

====
